---- MODULE Spec2Model ----
(***************************************************************************)
(* Model of the capture core of swear-by-sheets: the audio recorder        *)
(* (client/audio/audio.go), the screen recorder (client/screen/screen.go)  *)
(* and the tray orchestrator (client/tray/tray.go).                        *)
(*                                                                         *)
(* Every method is cut into steps at the points where another goroutine    *)
(* can interleave: a section under r.mu is one step, every call into the   *)
(* audio library, the channel close, the WaitGroup wait and the channel    *)
(* reset are one step each.  A thread's position inside a recorder method  *)
(* is pc[c]; "idle" means the thread is not inside a recorder method.      *)
(***************************************************************************)
EXTENDS Integers, Sequences, FiniteSets, TLC

\* ------------------------------------------------------------------ bounds
\* Recording periods explored per recorder (the payload is tagged with the
\* number of the period that captured it).
MaxPeriods == 2
\* Device callbacks whose samples the audio buffer may hold.
MaxBuf == 2
\* Values of the wall clock that stamps the file names.
MaxTime == 1
\* Leading samples of a buffer that SpecWav follows into the file.
MaxHead == 2

\* Frames one captureLoop captures.
MaxFrames == 2
\* captureLoop goroutines that may be alive at once.
MaxLoops == 2

\* --------------------------------------------------------------- constants
Recorders == {"audio", "screen"}

\* The thread that calls the recorders directly (Spec) and the goroutine of
\* setupToggleRecording (SpecTray).
Threads == {"caller", "toggle"}

NoImage == 0
NoFile == [kind |-> "none"]
Partial == [kind |-> "partial"]
NoPath == <<"", 0>>
LoopIds == 1..MaxLoops
\* what screenshot.NumActiveDisplays() may report
DisplayCounts == {0, 1}
NoLoop == [at |-> "none", img |-> NoImage, n |-> 0, err |-> FALSE]

Paths == {"audio", "screenshot"} \X (0..MaxTime)

\* tray.go, onExit lines 104-110: the handler has not been called
NoExit == [at |-> "none", timestamp |-> 0, audioFile |-> NoPath,
           screenshotFile |-> NoPath]

\* error values, named by the text of the fmt.Errorf
Nil == "nil"
ErrAlreadyRecording == "already recording"
ErrNotRecording == "not recording"
ErrInitialize == "failed to initialize portaudio"
ErrOpenStream == "failed to open stream"
ErrStartStream == "failed to start stream"
ErrStopStream == "failed to stop stream"
ErrCloseStream == "failed to close stream"
ErrTerminate == "failed to terminate portaudio"
ErrNoDisplays == "no active displays found"
ErrNoAudioData == "no audio data to save"
ErrNoScreenshot == "no screenshot to save"
ErrCreateFile == "failed to create file"
ErrWriteFile == "failed to write to file"
ErrEncode == "failed to encode image"

DeviceErrors == {ErrInitialize, ErrOpenStream, ErrStartStream}

VARIABLES
    recording,    \* [Recorders -> BOOLEAN]: r.recording
    stopChan,     \* [Recorders -> {"open","closed"}]: the channel r.stopChan refers to
    wg,           \* [Recorders -> Nat]: counter of r.wg
    period,       \* [Recorders -> Nat]: payload resets (recording periods begun) so far
    buffer,       \* audio r.buffer, as the sequence of the chunks appended to it:
                  \* each is the framesPerBuffer samples of one callback, tagged
                  \* with the period that captured it
    stream,       \* audio r.stream: "nil", or the state of the stream it points to
    paInit,       \* successful portaudio.Initialize calls not yet terminated
    leaked,       \* streams that r.stream no longer refers to: [open, active |-> Nat]
    audioLoops,   \* live recordingLoop goroutines
    latestImage,  \* screen r.latestImage: NoImage or the frame it points to
    captureLoops, \* [LoopIds -> [at, img, n, err]]: captureLoop goroutines;
                  \* at = "none" is a free slot, img the frame in hand, n the
                  \* frames captured, err whether the last CaptureRect failed
    files,        \* [Paths -> file]: the recordings directory
    now,          \* the latest reading of the wall clock, in seconds
    panicked,     \* a goroutine panicked: the process is gone
    pc,           \* [Threads -> position inside a recorder method, or "idle"]
    op,           \* [Threads -> the recorder method last called]
    ret,          \* [Threads -> what the last completed recorder method returned]
    arg,          \* [Threads -> filename argument of the SaveToFile in progress]
    tpc,          \* position of the toggle goroutine in the tray handler
    isRecording,  \* tray t.isRecording
    timestamp,    \* tray stopRecording: local timestamp
    audioFile,    \* tray stopRecording: local audioFile
    screenshotFile, \* tray stopRecording: local screenshotFile
    uploads,      \* ProcessAudioFile goroutines in flight: set of [audio, screenshot]
    onExit        \* the exit handler: its position and the locals of its stopRecording

audioVars == <<buffer, stream, paInit, leaked, audioLoops>>
screenVars == <<latestImage, captureLoops>>
recVars == <<recording, stopChan, wg, period>>
envVars == <<now>>
callVars == <<pc, op, ret, arg>>
trayVars == <<tpc, isRecording, timestamp, audioFile, screenshotFile, uploads,
             onExit>>

vars == <<recording, stopChan, wg, period, buffer, stream, paInit, leaked,
          audioLoops, latestImage, captureLoops, files, now,
          panicked, pc, op, ret, arg, tpc, isRecording, timestamp, audioFile,
          screenshotFile, uploads, onExit>>

\* ----------------------------------------------------------------- helpers
\* return v from the recorder method thread c is in
Return(c, v) ==
    /\ pc' = [pc EXCEPT ![c] = "idle"]
    /\ ret' = [ret EXCEPT ![c] = v]
    /\ arg' = [arg EXCEPT ![c] = NoPath]
    /\ UNCHANGED op

Goto(c, label) ==
    /\ pc' = [pc EXCEPT ![c] = label]
    /\ UNCHANGED <<op, ret, arg>>

\* the handler thread c runs has returned: what its calls returned is gone
Forget(c) ==
    /\ op' = [op EXCEPT ![c] = "none"]
    /\ ret' = [ret EXCEPT ![c] = Nil]
    /\ UNCHANGED <<pc, arg>>

\* the results a call into the audio library may have: TRUE is success
Results == BOOLEAN

\* thread c enters recorder method m (with filename f for SaveToFile)
Call(c, m, f) ==
    /\ pc' = [pc EXCEPT ![c] = m]
    /\ op' = [op EXCEPT ![c] = m]
    /\ arg' = [arg EXCEPT ![c] = f]
    /\ UNCHANGED ret

\* audio.go lines 16-18
sampleRate == 44100
channels == 1
framesPerBuffer == 1024

\* the in of one callback: framesPerBuffer samples of the period p
Chunk(p) == <<p>>

\* len(r.buffer)
SampleCount(buf) == Len(buf) * framesPerBuffer * channels

\* ------------------------------------------------------------ audio recorder
\* NewRecorder and tray.New / Startup
Init ==
    /\ recording = [r \in Recorders |-> FALSE]
    /\ stopChan = [r \in Recorders |-> "open"]
    /\ wg = [r \in Recorders |-> 0]
    /\ period = [r \in Recorders |-> 0]
    /\ buffer = <<>>
    /\ stream = "nil"
    /\ paInit = 0
    /\ leaked = [open |-> 0, active |-> 0]
    /\ audioLoops = 0
    /\ latestImage = NoImage
    /\ captureLoops = [i \in LoopIds |-> NoLoop]
    /\ files = [p \in Paths |-> NoFile]
    /\ now = 0
    /\ panicked = FALSE
    /\ pc = [c \in Threads |-> "idle"]
    /\ op = [c \in Threads |-> "none"]
    /\ ret = [c \in Threads |-> Nil]
    /\ arg = [c \in Threads |-> NoPath]
    /\ tpc = "wait"
    /\ isRecording = FALSE
    /\ timestamp = 0
    /\ audioFile = NoPath
    /\ screenshotFile = NoPath
    /\ uploads = {}
    /\ onExit = NoExit

Dec(n) == IF n > 0 THEN n - 1 ELSE 0

\* An unrecovered panic ends the process: every goroutine is gone and the
\* operating system releases the audio device; only the files remain.
Panic ==
    /\ panicked' = TRUE
    /\ pc' = [c \in Threads |-> "gone"]
    /\ tpc' = "gone"
    /\ audioLoops' = 0
    /\ captureLoops' = [i \in LoopIds |-> NoLoop]
    /\ stream' = IF stream = "nil" THEN "nil" ELSE "closed"
    /\ leaked' = [open |-> 0, active |-> 0]
    /\ paInit' = 0
    /\ uploads' = {}
    /\ UNCHANGED <<recVars, buffer, latestImage, files, now, op, ret, arg,
                   isRecording, timestamp, audioFile, screenshotFile, onExit>>

\* mutant: StartRecording does not clear the buffer
KeptBuffer(buf) == buf

\* r.buffer = make([]int16, 0)
ClearedBuffer(buf) == <<>>

\* mutant: StartRecording does not check r.recording
AudioStartRecording_NoCheck(c) ==
    /\ pc[c] = "aStart"
    /\ recording' = [recording EXCEPT !["audio"] = TRUE]
    /\ buffer' = <<>>
    /\ period' = [period EXCEPT !["audio"] = @ + 1]
    /\ Goto(c, "aInitialize")
    /\ UNCHANGED <<stopChan, wg, stream, paInit, leaked, audioLoops, screenVars,
                   envVars, files, panicked, trayVars>>

\* StartRecording, lines 41-48: the section under r.mu
AudioStartRecording(c) ==
    /\ pc[c] = "aStart"
    /\ IF recording["audio"]
       THEN /\ Return(c, ErrAlreadyRecording)
            /\ UNCHANGED <<recVars, buffer>>
       ELSE /\ recording' = [recording EXCEPT !["audio"] = TRUE]
            /\ buffer' = ClearedBuffer(buffer)
            /\ period' = [period EXCEPT !["audio"] = @ + 1]
            /\ Goto(c, "aInitialize")
            /\ UNCHANGED <<stopChan, wg>>
    /\ UNCHANGED <<stream, paInit, leaked, audioLoops, screenVars, envVars,
                   files, panicked, trayVars>>

\* StartRecording, lines 51-53: portaudio.Initialize()
AudioInitialize(c) ==
    /\ pc[c] = "aInitialize"
    /\ \E ok \in Results :
         IF ok
         THEN /\ paInit' = paInit + 1
              /\ Goto(c, "aOpenStream")
         ELSE /\ Return(c, ErrInitialize)
              /\ UNCHANGED paInit
    /\ UNCHANGED <<recVars, buffer, stream, leaked, audioLoops, screenVars,
                   now, files, panicked, trayVars>>

\* the streams no longer referenced once r.stream is overwritten
Overwritten(s, l) ==
    CASE s = "open"   -> [l EXCEPT !.open = @ + 1]
      [] s = "active" -> [l EXCEPT !.active = @ + 1]
      [] OTHER        -> l

\* portaudio.Terminate() returning nil: the library is released when the last
\* Initialize is undone, and releasing it closes every stream still open
TerminatedInit(n) == Dec(n)
TerminatedStream(n, s) ==
    IF Dec(n) = 0 /\ s \in {"open", "active"} THEN "closed" ELSE s
TerminatedLeaked(n, l) ==
    IF Dec(n) = 0 THEN [open |-> 0, active |-> 0] ELSE l

\* StartRecording, lines 56-68: portaudio.OpenDefaultStream(...); r.stream = stream
AudioOpenStream(c) ==
    /\ pc[c] = "aOpenStream"
    /\ \E ok \in Results :
         IF ok
         THEN /\ stream' = "open"
              /\ leaked' = Overwritten(stream, leaked)
              /\ Goto(c, "aStreamStart")
              /\ UNCHANGED paInit
         ELSE /\ paInit' = TerminatedInit(paInit)
              /\ stream' = TerminatedStream(paInit, stream)
              /\ leaked' = TerminatedLeaked(paInit, leaked)
              /\ Return(c, ErrOpenStream)
    /\ UNCHANGED <<recVars, buffer, audioLoops, screenVars, now, files,
                   panicked, trayVars>>

\* StartRecording, lines 71-75: r.stream.Start()
AudioStreamStart(c) ==
    /\ pc[c] = "aStreamStart"
    /\ \E ok \in Results :
         IF ok
         THEN /\ stream' = "active"
              /\ Goto(c, "aGo")
              /\ UNCHANGED <<paInit, leaked>>
         ELSE /\ stream' = "closed"
              /\ paInit' = TerminatedInit(paInit)
              /\ leaked' = TerminatedLeaked(paInit, leaked)
              /\ Return(c, ErrStartStream)
    /\ UNCHANGED <<recVars, buffer, audioLoops, screenVars, now, files,
                   panicked, trayVars>>

\* StartRecording, lines 77-80: r.wg.Add(1); go r.recordingLoop(); return nil
AudioGo(c) ==
    /\ pc[c] = "aGo"
    /\ wg' = [wg EXCEPT !["audio"] = @ + 1]
    /\ audioLoops' = audioLoops + 1
    /\ Return(c, Nil)
    /\ UNCHANGED <<recording, stopChan, period, buffer, stream, paInit, leaked,
                   screenVars, envVars, files, panicked, trayVars>>

\* mutant: StopRecording does not check r.recording
AudioStopRecording_NoCheck(c) ==
    /\ pc[c] = "aStop"
    /\ recording' = [recording EXCEPT !["audio"] = FALSE]
    /\ Goto(c, "aClose")
    /\ UNCHANGED <<stopChan, wg, period, audioVars, screenVars, envVars, files,
                   panicked, trayVars>>

\* StopRecording, lines 85-91: the section under r.mu
AudioStopRecording(c) ==
    /\ pc[c] = "aStop"
    /\ IF ~recording["audio"]
       THEN /\ Return(c, ErrNotRecording)
            /\ UNCHANGED recording
       ELSE /\ recording' = [recording EXCEPT !["audio"] = FALSE]
            /\ Goto(c, "aClose")
    /\ UNCHANGED <<stopChan, wg, period, audioVars, screenVars, envVars, files,
                   panicked, trayVars>>

\* StopRecording, line 94: close(r.stopChan); closing a closed channel panics
AudioCloseStopChan(c) ==
    /\ pc[c] = "aClose"
    /\ IF stopChan["audio"] = "closed"
       THEN Panic
       ELSE /\ stopChan' = [stopChan EXCEPT !["audio"] = "closed"]
            /\ Goto(c, "aWait")
            /\ UNCHANGED <<recording, wg, period, audioVars, screenVars,
                           envVars, files, panicked, trayVars>>

\* mutant: StopRecording does not wait for the recordingLoop
AudioWait_NoWait(c) ==
    /\ pc[c] = "aWait"
    /\ Goto(c, IF stream # "nil" THEN "aStreamStop" ELSE "aTerminate")
    /\ UNCHANGED <<recVars, audioVars, screenVars, envVars, files, panicked,
                   trayVars>>

\* StopRecording, lines 95-98: r.wg.Wait(); if r.stream != nil
AudioWait(c) ==
    /\ pc[c] = "aWait"
    /\ wg["audio"] = 0
    /\ Goto(c, IF stream # "nil" THEN "aStreamStop" ELSE "aTerminate")
    /\ UNCHANGED <<recVars, audioVars, screenVars, envVars, files, panicked,
                   trayVars>>

\* StopRecording, lines 99-101: r.stream.Stop()
AudioStreamStop(c) ==
    /\ pc[c] = "aStreamStop"
    /\ \E ok \in Results :
         IF ok
         THEN /\ stream' = IF stream = "active" THEN "open" ELSE stream
              /\ Goto(c, "aStreamClose")
         ELSE /\ Return(c, ErrStopStream)
              /\ UNCHANGED stream
    /\ UNCHANGED <<recVars, buffer, paInit, leaked, audioLoops, screenVars,
                   now, files, panicked, trayVars>>

\* StopRecording, lines 102-104: r.stream.Close()
AudioStreamClose(c) ==
    /\ pc[c] = "aStreamClose"
    /\ \E ok \in Results :
         IF ok
         THEN /\ stream' = "closed"
              /\ Goto(c, "aTerminate")
         ELSE /\ Return(c, ErrCloseStream)
              /\ UNCHANGED stream
    /\ UNCHANGED <<recVars, buffer, paInit, leaked, audioLoops, screenVars,
                   now, files, panicked, trayVars>>

\* StopRecording, lines 108-110: portaudio.Terminate()
AudioTerminate(c) ==
    /\ pc[c] = "aTerminate"
    /\ \E ok \in Results :
         IF ok
         THEN /\ paInit' = TerminatedInit(paInit)
              /\ stream' = TerminatedStream(paInit, stream)
              /\ leaked' = TerminatedLeaked(paInit, leaked)
              /\ Goto(c, "aReset")
         ELSE /\ Return(c, ErrTerminate)
              /\ UNCHANGED <<paInit, stream, leaked>>
    /\ UNCHANGED <<recVars, buffer, audioLoops, screenVars, now, files,
                   panicked, trayVars>>

\* mutant: StopRecording does not replace the closed channel
AudioResetStopChan_Missing(c) ==
    /\ pc[c] = "aReset"
    /\ Return(c, Nil)
    /\ UNCHANGED <<recVars, audioVars, screenVars, envVars, files, panicked,
                   trayVars>>

\* StopRecording, lines 113-115: r.stopChan = make(chan bool); return nil
AudioResetStopChan(c) ==
    /\ pc[c] = "aReset"
    /\ stopChan' = [stopChan EXCEPT !["audio"] = "open"]
    /\ Return(c, Nil)
    /\ UNCHANGED <<recording, wg, period, audioVars, screenVars, envVars, files,
                   panicked, trayVars>>

\* time.Second, in nanoseconds
Second == 1000 * 1000 * 1000

\* GetDuration, lines 220-227, under r.mu: len(r.buffer) / sampleRate seconds
\* as a time.Duration, a whole number of nanoseconds rounded towards zero
\* (the quotient is taken in two parts to stay within 32 bits)
GetDuration(buf) ==
    LET samples == SampleCount(buf)
    IN samples * (Second \div sampleRate)
         + (samples * (Second % sampleRate)) \div sampleRate

\* what os.Create and the writes that follow it may do
SaveResults(failure) == {"ok", "create fails", failure}

\* the file SaveToFile leaves behind for the buffer buf
WavFile(buf) == [kind |-> "wav", data |-> buf]

\* mutant: SaveToFile does not check for an empty buffer
AudioSaveToFile_NoEmptyCheck(c) ==
    /\ pc[c] = "aSave"
    /\ files' = [files EXCEPT ![arg[c]] = WavFile(buffer)]
    /\ Return(c, Nil)
    /\ UNCHANGED <<recVars, audioVars, screenVars, now, panicked, trayVars>>

\* mutant: SaveToFile hands the buffer over to the file and starts a new one
AudioSaveToFile_Drains(c) ==
    /\ pc[c] = "aSave"
    /\ IF SampleCount(buffer) = 0
       THEN /\ Return(c, ErrNoAudioData)
            /\ UNCHANGED <<files, buffer>>
       ELSE /\ files' = [files EXCEPT ![arg[c]] = WavFile(buffer)]
            /\ buffer' = <<>>
            /\ Return(c, Nil)
    /\ UNCHANGED <<recVars, stream, paInit, leaked, audioLoops, screenVars, now,
                   panicked, trayVars>>

\* SaveToFile, lines 119-151, all of it under r.mu
AudioSaveToFile(c) ==
    /\ pc[c] = "aSave"
    /\ IF SampleCount(buffer) = 0
       THEN /\ Return(c, ErrNoAudioData)
            /\ UNCHANGED files
       ELSE \E outcome \in SaveResults("write fails") :
              CASE outcome = "ok" ->
                     /\ files' = [files EXCEPT ![arg[c]] = WavFile(buffer)]
                     /\ Return(c, Nil)
                [] outcome = "create fails" ->
                     /\ Return(c, ErrCreateFile)
                     /\ UNCHANGED files
                [] outcome = "write fails" ->
                     /\ files' = [files EXCEPT ![arg[c]] = Partial]
                     /\ Return(c, ErrWriteFile)
    /\ UNCHANGED <<recVars, audioVars, screenVars, now, panicked, trayVars>>

\* mutant: processAudio appends whether or not r.recording
AppendedAlways(buf, rec, in) == buf \o in

\* what processAudio leaves in the buffer when handed the chunk in
Appended(buf, rec, in) == IF rec THEN buf \o in ELSE buf

\* processAudio, lines 154-161: the callback of a started stream, under r.mu
processAudio ==
    /\ stream = "active" \/ leaked.active > 0
    /\ recording["audio"] => Len(buffer) < MaxBuf
    /\ buffer' = Appended(buffer, recording["audio"], Chunk(period["audio"]))
    /\ UNCHANGED <<recVars, stream, paInit, leaked, audioLoops, screenVars,
                   envVars, files, panicked, callVars, trayVars>>

\* recordingLoop, lines 164-167: <-r.stopChan, then the deferred r.wg.Done()
recordingLoop ==
    /\ audioLoops > 0
    /\ stopChan["audio"] = "closed"
    /\ audioLoops' = audioLoops - 1
    /\ wg' = [wg EXCEPT !["audio"] = @ - 1]
    /\ UNCHANGED <<recording, stopChan, period, buffer, stream, paInit, leaked,
                   screenVars, envVars, files, panicked, callVars, trayVars>>

\* ----------------------------------------------------------- screen recorder
\* the lowest free captureLoop slot
FreeLoop == CHOOSE i \in LoopIds :
              /\ captureLoops[i] = NoLoop
              /\ \A j \in LoopIds : captureLoops[j] = NoLoop => i <= j

LiveLoops == {i \in LoopIds : captureLoops[i] # NoLoop}

\* mutant: StartRecording keeps the frame of the period before
KeptImage(img) == img

\* r.latestImage = nil
ClearedImage(img) == NoImage

\* StartRecording, lines 32-39: the section under r.mu
ScreenStartRecording(c) ==
    /\ pc[c] = "sStart"
    /\ IF recording["screen"]
       THEN /\ Return(c, ErrAlreadyRecording)
            /\ UNCHANGED <<recVars, latestImage>>
       ELSE /\ recording' = [recording EXCEPT !["screen"] = TRUE]
            /\ latestImage' = ClearedImage(latestImage)
            /\ period' = [period EXCEPT !["screen"] = @ + 1]
            /\ Goto(c, "sDisplays")
            /\ UNCHANGED <<stopChan, wg>>
    /\ UNCHANGED <<audioVars, captureLoops, envVars, files, panicked, trayVars>>

\* StartRecording, lines 42-43: n := screenshot.NumActiveDisplays(); if n <= 0
ScreenNumActiveDisplays(c) ==
    /\ pc[c] = "sDisplays"
    /\ \E n \in DisplayCounts :
         Goto(c, IF n <= 0 THEN "sRevert" ELSE "sGo")
    /\ UNCHANGED <<recVars, audioVars, screenVars, envVars, files, panicked,
                   trayVars>>

\* mutant: the failed StartRecording leaves r.recording set
ScreenRevert_Missing(c) ==
    /\ pc[c] = "sRevert"
    /\ Return(c, ErrNoDisplays)
    /\ UNCHANGED <<recVars, audioVars, screenVars, envVars, files, panicked,
                   trayVars>>

\* StartRecording, lines 44-47: r.recording = false under r.mu; return the error
ScreenRevert(c) ==
    /\ pc[c] = "sRevert"
    /\ recording' = [recording EXCEPT !["screen"] = FALSE]
    /\ Return(c, ErrNoDisplays)
    /\ UNCHANGED <<stopChan, wg, period, audioVars, screenVars, envVars, files,
                   panicked, trayVars>>

\* mutant: the captureLoop enters its select without a first capture
ScreenGo_NoFirstCapture(c) ==
    /\ pc[c] = "sGo"
    /\ \E i \in LoopIds : captureLoops[i] = NoLoop
    /\ wg' = [wg EXCEPT !["screen"] = @ + 1]
    /\ captureLoops' = [captureLoops EXCEPT ![FreeLoop] =
                            [at |-> "select", img |-> NoImage, n |-> 0, err |-> FALSE]]
    /\ Return(c, Nil)
    /\ UNCHANGED <<recording, stopChan, period, audioVars, latestImage, envVars,
                   files, panicked, trayVars>>

\* StartRecording, lines 50-53: r.wg.Add(1); go r.captureLoop(); return nil
ScreenGo(c) ==
    /\ pc[c] = "sGo"
    /\ \E i \in LoopIds : captureLoops[i] = NoLoop
    /\ wg' = [wg EXCEPT !["screen"] = @ + 1]
    /\ captureLoops' = [captureLoops EXCEPT ![FreeLoop] =
                            [at |-> "first", img |-> NoImage, n |-> 0, err |-> FALSE]]
    /\ Return(c, Nil)
    /\ UNCHANGED <<recording, stopChan, period, audioVars, latestImage, envVars,
                   files, panicked, trayVars>>

\* mutant: StopRecording does not check r.recording
ScreenStopRecording_NoCheck(c) ==
    /\ pc[c] = "sStop"
    /\ recording' = [recording EXCEPT !["screen"] = FALSE]
    /\ Goto(c, "sClose")
    /\ UNCHANGED <<stopChan, wg, period, audioVars, screenVars, envVars, files,
                   panicked, trayVars>>

\* StopRecording, lines 58-64: the section under r.mu
ScreenStopRecording(c) ==
    /\ pc[c] = "sStop"
    /\ IF ~recording["screen"]
       THEN /\ Return(c, ErrNotRecording)
            /\ UNCHANGED recording
       ELSE /\ recording' = [recording EXCEPT !["screen"] = FALSE]
            /\ Goto(c, "sClose")
    /\ UNCHANGED <<stopChan, wg, period, audioVars, screenVars, envVars, files,
                   panicked, trayVars>>

\* StopRecording, line 67: close(r.stopChan); closing a closed channel panics
ScreenCloseStopChan(c) ==
    /\ pc[c] = "sClose"
    /\ IF stopChan["screen"] = "closed"
       THEN Panic
       ELSE /\ stopChan' = [stopChan EXCEPT !["screen"] = "closed"]
            /\ Goto(c, "sWait")
            /\ UNCHANGED <<recording, wg, period, audioVars, screenVars,
                           envVars, files, panicked, trayVars>>

\* mutant: StopRecording does not wait for the captureLoop
ScreenWait_NoWait(c) ==
    /\ pc[c] = "sWait"
    /\ Goto(c, "sReset")
    /\ UNCHANGED <<recVars, audioVars, screenVars, envVars, files, panicked,
                   trayVars>>

\* StopRecording, line 68: r.wg.Wait()
ScreenWait(c) ==
    /\ pc[c] = "sWait"
    /\ wg["screen"] = 0
    /\ Goto(c, "sReset")
    /\ UNCHANGED <<recVars, audioVars, screenVars, envVars, files, panicked,
                   trayVars>>

\* StopRecording, lines 71-73: r.stopChan = make(chan bool); return nil
ScreenResetStopChan(c) ==
    /\ pc[c] = "sReset"
    /\ stopChan' = [stopChan EXCEPT !["screen"] = "open"]
    /\ Return(c, Nil)
    /\ UNCHANGED <<recording, wg, period, audioVars, screenVars, envVars, files,
                   panicked, trayVars>>

\* the file SaveToFile leaves behind for the frame img
PngFile(img) == [kind |-> "png", img |-> img]

\* SaveToFile, lines 77-96, all of it under r.mu
ScreenSaveToFile(c) ==
    /\ pc[c] = "sSave"
    /\ IF latestImage = NoImage
       THEN /\ Return(c, ErrNoScreenshot)
            /\ UNCHANGED files
       ELSE \E outcome \in SaveResults("encode fails") :
              CASE outcome = "ok" ->
                     /\ files' = [files EXCEPT ![arg[c]] = PngFile(latestImage)]
                     /\ Return(c, Nil)
                [] outcome = "create fails" ->
                     /\ Return(c, ErrCreateFile)
                     /\ UNCHANGED files
                [] outcome = "encode fails" ->
                     /\ files' = [files EXCEPT ![arg[c]] = Partial]
                     /\ Return(c, ErrEncode)
    /\ UNCHANGED <<recVars, audioVars, screenVars, now, panicked, trayVars>>

\* mutant: captureScreen does not return on the error and stores the nil image
Captured_StoresOnError(ok, p, n) ==
    IF ok THEN [at |-> "store", img |-> ((p - 1) * MaxFrames) + n + 1, n |-> n + 1,
                err |-> FALSE]
          ELSE [at |-> "store", img |-> NoImage, n |-> n, err |-> TRUE]

\* the n-th frame captured in period p
Frame(p, n) == (p - 1) * MaxFrames + n

\* the period in which frame img was captured
PeriodOf(img) == IF img = NoImage THEN 0 ELSE ((img - 1) \div MaxFrames) + 1

\* captureScreen, lines 121-137: screenshot.CaptureRect and the conversion,
\* outside the lock, by a loop that has captured n frames in period p
Captured(ok, p, n) ==
    IF ok THEN [at |-> "store", img |-> Frame(p, n + 1), n |-> n + 1, err |-> FALSE]
          ELSE [at |-> "select", img |-> NoImage, n |-> n, err |-> TRUE]

\* captureLoop, lines 100-106: the capture made before the loop is entered
captureLoopFirst(i) ==
    /\ captureLoops[i].at = "first"
    /\ \E ok \in BOOLEAN :
         captureLoops' = [captureLoops EXCEPT ![i] =
                             Captured(ok, period["screen"], captureLoops[i].n)]
    /\ UNCHANGED <<recVars, audioVars, latestImage, envVars, files, panicked,
                   callVars, trayVars>>

\* captureLoop, lines 112-113: case <-ticker.C: r.captureScreen()
captureLoopTick(i) ==
    /\ captureLoops[i].at = "select"
    /\ captureLoops[i].n < MaxFrames
    /\ \E ok \in BOOLEAN :
         captureLoops' = [captureLoops EXCEPT ![i] =
                             Captured(ok, period["screen"], captureLoops[i].n)]
    /\ UNCHANGED <<recVars, audioVars, latestImage, envVars, files, panicked,
                   callVars, trayVars>>

\* mutant: captureScreen keeps the first frame of the period
StoredOnce(old, rgba) == IF old = NoImage THEN rgba ELSE old

\* r.latestImage = rgba
Stored(old, rgba) == rgba

\* captureScreen, lines 140-142: r.latestImage = rgba under r.mu
captureScreen(i) ==
    /\ captureLoops[i].at = "store"
    /\ latestImage' = Stored(latestImage, captureLoops[i].img)
    /\ captureLoops' = [captureLoops EXCEPT ![i] =
                            [at |-> "select", img |-> NoImage,
                             n |-> captureLoops[i].n, err |-> captureLoops[i].err]]
    /\ UNCHANGED <<recVars, audioVars, envVars, files, panicked, callVars,
                   trayVars>>

\* captureLoop, lines 110-111: case <-r.stopChan: return, then the deferred
\* r.wg.Done()
captureLoopStop(i) ==
    /\ captureLoops[i].at = "select"
    /\ stopChan["screen"] = "closed"
    /\ captureLoops' = [captureLoops EXCEPT ![i] = NoLoop]
    /\ wg' = [wg EXCEPT !["screen"] = @ - 1]
    /\ UNCHANGED <<recording, stopChan, period, audioVars, latestImage, envVars,
                   files, panicked, callVars, trayVars>>

\* ------------------------------------------------- a caller of the recorders
\* the position at which method m of recorder r is entered
Entry(r, m) ==
    IF r = "audio"
    THEN CASE m = "Start" -> "aStart" [] m = "Stop" -> "aStop" [] m = "Save" -> "aSave"
    ELSE CASE m = "Start" -> "sStart" [] m = "Stop" -> "sStop" [] m = "Save" -> "sSave"

Methods == {"Start", "Stop", "Save"}

\* the file names a direct caller saves recorder r's payload under
CallerPaths(r) == {IF r = "audio" THEN "audio" ELSE "screenshot"} \X (0..MaxTime)

\* The two recorders are separate instances that share no field and no lock:
\* a behaviour of the direct caller exercises one of them, with any sequence
\* of calls (the orchestrator below drives both together).
Drives(r) ==
    \/ op["caller"] = "none"
    \/ \E m \in Methods : op["caller"] = Entry(r, m)

CallStartRecording(r) ==
    /\ pc["caller"] = "idle"
    /\ Drives(r)
    /\ recording[r] \/ period[r] < MaxPeriods
    /\ Call("caller", Entry(r, "Start"), NoPath)
    /\ UNCHANGED <<recVars, audioVars, screenVars, envVars, files, panicked,
                   trayVars>>

CallStopRecording(r) ==
    /\ pc["caller"] = "idle"
    /\ Drives(r)
    /\ Call("caller", Entry(r, "Stop"), NoPath)
    /\ UNCHANGED <<recVars, audioVars, screenVars, envVars, files, panicked,
                   trayVars>>

CallSaveToFile(r) ==
    /\ pc["caller"] = "idle"
    /\ Drives(r)
    /\ \E f \in CallerPaths(r) : Call("caller", Entry(r, "Save"), f)
    /\ UNCHANGED <<recVars, audioVars, screenVars, envVars, files, panicked,
                   trayVars>>

\* the goroutines and callbacks the recorders start
Background ==
    \/ processAudio
    \/ recordingLoop
    \/ \E i \in LoopIds : captureLoopFirst(i)
    \/ \E i \in LoopIds : captureLoopTick(i)
    \/ \E i \in LoopIds : captureScreen(i)
    \/ \E i \in LoopIds : captureLoopStop(i)

Next ==
    \/ \E r \in Recorders : CallStartRecording(r)
    \/ \E r \in Recorders : CallStopRecording(r)
    \/ \E r \in Recorders : CallSaveToFile(r)
    \/ AudioStartRecording("caller")
    \/ AudioInitialize("caller")
    \/ AudioOpenStream("caller")
    \/ AudioStreamStart("caller")
    \/ AudioGo("caller")
    \/ AudioStopRecording("caller")
    \/ AudioCloseStopChan("caller")
    \/ AudioWait("caller")
    \/ AudioStreamStop("caller")
    \/ AudioStreamClose("caller")
    \/ AudioTerminate("caller")
    \/ AudioResetStopChan("caller")
    \/ AudioSaveToFile("caller")
    \/ ScreenStartRecording("caller")
    \/ ScreenNumActiveDisplays("caller")
    \/ ScreenRevert("caller")
    \/ ScreenGo("caller")
    \/ ScreenStopRecording("caller")
    \/ ScreenCloseStopChan("caller")
    \/ ScreenWait("caller")
    \/ ScreenResetStopChan("caller")
    \/ ScreenSaveToFile("caller")
    \/ Background

Spec == Init /\ [][Next]_vars

\* the steps of the direct caller inside a recorder method
CallerStep ==
    \/ AudioStartRecording("caller")
    \/ AudioInitialize("caller")
    \/ AudioOpenStream("caller")
    \/ AudioStreamStart("caller")
    \/ AudioGo("caller")
    \/ AudioStopRecording("caller")
    \/ AudioCloseStopChan("caller")
    \/ AudioWait("caller")
    \/ AudioStreamStop("caller")
    \/ AudioStreamClose("caller")
    \/ AudioTerminate("caller")
    \/ AudioResetStopChan("caller")
    \/ AudioSaveToFile("caller")
    \/ ScreenStartRecording("caller")
    \/ ScreenNumActiveDisplays("caller")
    \/ ScreenRevert("caller")
    \/ ScreenGo("caller")
    \/ ScreenStopRecording("caller")
    \/ ScreenCloseStopChan("caller")
    \/ ScreenWait("caller")
    \/ ScreenResetStopChan("caller")
    \/ ScreenSaveToFile("caller")

\* Every device, capture and file call returns and the scheduler runs every
\* runnable goroutine: the caller takes the next step of the method it is in,
\* a recordingLoop whose channel is closed returns (audio.go 165-166), a
\* captureLoop finishes the capture it is in (screen.go 119-142) and, its
\* channel closed, leaves its select by the stop case even if ticks keep
\* arriving, since the select chooses at random among the cases that are
\* ready (screen.go 109-111).  New calls, device callbacks and ticks are not
\* forced.
CallerFairness ==
    /\ WF_vars(CallerStep)
    /\ WF_vars(recordingLoop)
    /\ \A i \in LoopIds : WF_vars(captureLoopFirst(i))
    /\ \A i \in LoopIds : WF_vars(captureScreen(i))
    /\ \A i \in LoopIds : SF_vars(captureLoopStop(i))

SpecFair == Init /\ [][Next]_vars /\ CallerFairness

\* ------------------------------------------------------------ orchestrator
\* tray.go, stopRecording lines 145-146 and 157: the names of the two files
AudioPath(ts) == <<"audio", ts>>
ScreenshotPath(ts) == <<"screenshot", ts>>

\* mutant: the next click is handled only when no upload is in flight
Click_AfterUpload ==
    /\ tpc = "wait"
    /\ pc["toggle"] = "idle"
    /\ uploads = {}
    /\ IF isRecording
       THEN /\ Call("toggle", "aStop", NoPath)
            /\ tpc' = "stopAudio"
       ELSE /\ recording["audio"] \/ period["audio"] < MaxPeriods
            /\ Call("toggle", "aStart", NoPath)
            /\ tpc' = "startAudio"
    /\ UNCHANGED <<recVars, audioVars, screenVars, envVars, files, panicked,
                   isRecording, timestamp, audioFile, screenshotFile, uploads,
                   onExit>>

\* setupToggleRecording, lines 93-98: a click is received and the handler
\* chosen by t.isRecording calls the audio recorder (lines 114 and 135)
Click ==
    /\ tpc = "wait"
    /\ pc["toggle"] = "idle"
    /\ IF isRecording
       THEN /\ Call("toggle", "aStop", NoPath)
            /\ tpc' = "stopAudio"
       ELSE /\ recording["audio"] \/ period["audio"] < MaxPeriods
            /\ Call("toggle", "aStart", NoPath)
            /\ tpc' = "startAudio"
    /\ UNCHANGED <<recVars, audioVars, screenVars, envVars, files, panicked,
                   isRecording, timestamp, audioFile, screenshotFile, uploads,
                   onExit>>

\* mutant: startRecording only logs the audio error and goes on
StartAudioReturned_IgnoresError ==
    /\ tpc = "startAudio"
    /\ pc["toggle"] = "idle"
    /\ Call("toggle", "sStart", NoPath)
    /\ tpc' = "startScreen"
    /\ UNCHANGED <<recVars, audioVars, screenVars, envVars, files, panicked,
                   isRecording, timestamp, audioFile, screenshotFile, uploads,
                   onExit>>

\* startRecording, lines 114-121: the audio start has returned; on an error
\* the handler returns, otherwise the screen recorder is started
StartAudioReturned ==
    /\ tpc = "startAudio"
    /\ pc["toggle"] = "idle"
    /\ IF ret["toggle"] # Nil
       THEN /\ tpc' = "wait"
            /\ Forget("toggle")
       ELSE /\ Call("toggle", "sStart", NoPath)
            /\ tpc' = "startScreen"
    /\ UNCHANGED <<recVars, audioVars, screenVars, envVars, files, panicked,
                   isRecording, timestamp, audioFile, screenshotFile, uploads,
                   onExit>>

\* startRecording, lines 121-130: the screen start has returned (an error is
\* only logged); t.isRecording = true
StartScreenReturned ==
    /\ tpc = "startScreen"
    /\ pc["toggle"] = "idle"
    /\ isRecording' = TRUE
    /\ tpc' = "wait"
    /\ Forget("toggle")
    /\ UNCHANGED <<recVars, audioVars, screenVars, envVars, files, panicked,
                   timestamp, audioFile, screenshotFile, uploads, onExit>>

\* mutant: stopRecording saves the audio as soon as the audio stop has
\* returned, before the screen recorder is stopped
StopAudioReturned_SavesFirst ==
    /\ tpc = "stopAudio"
    /\ pc["toggle"] = "idle"
    /\ \E t \in now..MaxTime :
         /\ now' = t
         /\ timestamp' = t
         /\ audioFile' = AudioPath(t)
         /\ Call("toggle", "aSave", AudioPath(t))
    /\ screenshotFile' = NoPath
    /\ tpc' = "saveAudio"
    /\ UNCHANGED <<recVars, audioVars, screenVars, files, panicked,
                   isRecording, uploads, onExit>>

\* stopRecording, lines 135-140: the audio stop has returned (an error is only
\* logged); the screen recorder is stopped
StopAudioReturned ==
    /\ tpc = "stopAudio"
    /\ pc["toggle"] = "idle"
    /\ Call("toggle", "sStop", NoPath)
    /\ tpc' = "stopScreen"
    /\ UNCHANGED <<recVars, audioVars, screenVars, envVars, files, panicked,
                   isRecording, timestamp, audioFile, screenshotFile, uploads,
                   onExit>>

\* stopRecording, lines 140-147: the screen stop has returned (an error is only
\* logged); the timestamp is taken from time.Now(), which never runs
\* backwards, and the audio is saved
StopScreenReturned ==
    /\ tpc = "stopScreen"
    /\ pc["toggle"] = "idle"
    /\ \E t \in now..MaxTime :
         /\ now' = t
         /\ timestamp' = t
         /\ audioFile' = AudioPath(t)
         /\ Call("toggle", "aSave", AudioPath(t))
    /\ screenshotFile' = NoPath
    /\ tpc' = "saveAudio"
    /\ UNCHANGED <<recVars, audioVars, screenVars, files, panicked,
                   isRecording, uploads, onExit>>

\* stopRecording, lines 168-200: go func() { ProcessAudioFile(audioFile,
\* screenshotFile) ... }(); t.isRecording = false; the handler returns and its
\* locals are gone
HandOff(shot) ==
    /\ uploads' = uploads \cup {[audio |-> audioFile, screenshot |-> shot]}
    /\ isRecording' = FALSE
    /\ tpc' = "wait"
    /\ timestamp' = 0
    /\ audioFile' = NoPath
    /\ screenshotFile' = NoPath
    /\ UNCHANGED onExit

\* mutant: stopRecording saves the screenshot without asking HasScreenshot()
SaveAudioReturned_NoHasScreenshot ==
    /\ tpc = "saveAudio"
    /\ pc["toggle"] = "idle"
    /\ screenshotFile' = ScreenshotPath(timestamp)
    /\ Call("toggle", "sSave", ScreenshotPath(timestamp))
    /\ tpc' = "saveScreenshot"
    /\ UNCHANGED <<isRecording, uploads, timestamp, audioFile, onExit>>
    /\ UNCHANGED <<recVars, audioVars, screenVars, envVars, files, panicked>>

\* mutant: stopRecording reads the clock again to name the screenshot
SaveAudioReturned_OwnTimestamp ==
    /\ tpc = "saveAudio"
    /\ pc["toggle"] = "idle"
    /\ IF latestImage # NoImage
       THEN /\ \E t \in now..MaxTime :
                 /\ now' = t
                 /\ screenshotFile' = ScreenshotPath(t)
                 /\ Call("toggle", "sSave", ScreenshotPath(t))
            /\ tpc' = "saveScreenshot"
            /\ UNCHANGED <<isRecording, uploads, timestamp, audioFile, onExit>>
       ELSE /\ HandOff(NoPath)
            /\ Forget("toggle")
            /\ UNCHANGED now
    /\ UNCHANGED <<recVars, audioVars, screenVars, files, panicked>>

\* stopRecording, lines 147-158: the audio save has returned (an error is only
\* logged); if t.screenRecorder.HasScreenshot() the screenshot is saved,
\* otherwise the upload is handed off with an empty screenshot path
SaveAudioReturned ==
    /\ tpc = "saveAudio"
    /\ pc["toggle"] = "idle"
    /\ IF latestImage # NoImage
       THEN /\ screenshotFile' = ScreenshotPath(timestamp)
            /\ Call("toggle", "sSave", ScreenshotPath(timestamp))
            /\ tpc' = "saveScreenshot"
            /\ UNCHANGED <<isRecording, uploads, timestamp, audioFile, onExit>>
       ELSE /\ HandOff(NoPath)
            /\ Forget("toggle")
    /\ UNCHANGED <<recVars, audioVars, screenVars, envVars, files, panicked>>

\* stopRecording, lines 158-200: the screenshot save has returned (an error is
\* only logged); the upload is handed off
SaveScreenshotReturned ==
    /\ tpc = "saveScreenshot"
    /\ pc["toggle"] = "idle"
    /\ HandOff(screenshotFile)
    /\ Forget("toggle")
    /\ UNCHANGED <<recVars, audioVars, screenVars, envVars, files, panicked>>

\* stopRecording, lines 168-195: the upload goroutine ends, whatever
\* ProcessAudioFile returned
UploadReturned ==
    /\ \E u \in uploads : uploads' = uploads \ {u}
    /\ UNCHANGED <<recVars, audioVars, screenVars, envVars, files, panicked,
                   callVars, tpc, isRecording, timestamp, audioFile,
                   screenshotFile, onExit>>

NextTray ==
    \/ Click
    \/ StartAudioReturned
    \/ StartScreenReturned
    \/ StopAudioReturned
    \/ StopScreenReturned
    \/ SaveAudioReturned
    \/ SaveScreenshotReturned
    \/ UploadReturned
    \/ AudioStartRecording("toggle")
    \/ AudioInitialize("toggle")
    \/ AudioOpenStream("toggle")
    \/ AudioStreamStart("toggle")
    \/ AudioGo("toggle")
    \/ AudioStopRecording("toggle")
    \/ AudioCloseStopChan("toggle")
    \/ AudioWait("toggle")
    \/ AudioStreamStop("toggle")
    \/ AudioStreamClose("toggle")
    \/ AudioTerminate("toggle")
    \/ AudioResetStopChan("toggle")
    \/ AudioSaveToFile("toggle")
    \/ ScreenStartRecording("toggle")
    \/ ScreenNumActiveDisplays("toggle")
    \/ ScreenRevert("toggle")
    \/ ScreenGo("toggle")
    \/ ScreenStopRecording("toggle")
    \/ ScreenCloseStopChan("toggle")
    \/ ScreenWait("toggle")
    \/ ScreenResetStopChan("toggle")
    \/ ScreenSaveToFile("toggle")
    \/ Background

SpecTray == Init /\ [][NextTray]_vars

\* the steps of the toggle goroutine inside a handler: the returns of the
\* recorder calls and the steps of the recorder methods it is in
ToggleStep ==
    \/ StartAudioReturned
    \/ StartScreenReturned
    \/ StopAudioReturned
    \/ StopScreenReturned
    \/ SaveAudioReturned
    \/ SaveScreenshotReturned
    \/ AudioStartRecording("toggle")
    \/ AudioInitialize("toggle")
    \/ AudioOpenStream("toggle")
    \/ AudioStreamStart("toggle")
    \/ AudioGo("toggle")
    \/ AudioStopRecording("toggle")
    \/ AudioCloseStopChan("toggle")
    \/ AudioWait("toggle")
    \/ AudioStreamStop("toggle")
    \/ AudioStreamClose("toggle")
    \/ AudioTerminate("toggle")
    \/ AudioResetStopChan("toggle")
    \/ AudioSaveToFile("toggle")
    \/ ScreenStartRecording("toggle")
    \/ ScreenNumActiveDisplays("toggle")
    \/ ScreenRevert("toggle")
    \/ ScreenGo("toggle")
    \/ ScreenStopRecording("toggle")
    \/ ScreenCloseStopChan("toggle")
    \/ ScreenWait("toggle")
    \/ ScreenResetStopChan("toggle")
    \/ ScreenSaveToFile("toggle")

\* The Go scheduler runs every runnable goroutine, and every device, capture
\* and file call returns: the toggle goroutine takes its next step, a
\* recordingLoop whose channel is closed returns (audio.go 165-166), a
\* captureLoop finishes the capture it is in (screen.go 119-142) and, its
\* channel closed, leaves its select by the stop case (screen.go 110-111):
\* the ticker case is ready once a second, the stop case all the time.
\* Clicks, device callbacks, ticks and the end of an upload are not forced.
TrayFairness ==
    /\ WF_vars(ToggleStep)
    /\ WF_vars(recordingLoop)
    /\ \A i \in LoopIds : WF_vars(captureLoopFirst(i))
    /\ \A i \in LoopIds : WF_vars(captureScreen(i))
    /\ \A i \in LoopIds : SF_vars(captureLoopStop(i))

SpecTrayFair == Init /\ [][NextTray]_vars /\ TrayFairness

\* ------------------------------------------- runs in which no call fails
\* the errors that report a failed device, display or file system call
FailureErrors ==
    DeviceErrors \cup {ErrStopStream, ErrCloseStream, ErrTerminate,
                       ErrNoDisplays, ErrCreateFile, ErrWriteFile, ErrEncode}

\* the step is not the return of a failed call, nor a failed capture
NoFailure ==
    /\ \A c \in Threads :
         (pc[c] # "idle" /\ pc'[c] = "idle") => ret'[c] \notin FailureErrors
    /\ \A i \in LoopIds : ~captureLoops'[i].err

\* a single caller that alternates StartRecording and StopRecording
CallAlternating(r) ==
    \/ ~recording[r] /\ CallStartRecording(r)
    \/ recording[r] /\ CallStopRecording(r)
    \/ CallSaveToFile(r)

NextReuse ==
    \/ \E r \in Recorders : CallAlternating(r)
    \/ AudioStartRecording("caller")
    \/ AudioInitialize("caller") /\ NoFailure
    \/ AudioOpenStream("caller") /\ NoFailure
    \/ AudioStreamStart("caller") /\ NoFailure
    \/ AudioGo("caller")
    \/ AudioStopRecording("caller")
    \/ AudioCloseStopChan("caller")
    \/ AudioWait("caller")
    \/ AudioStreamStop("caller") /\ NoFailure
    \/ AudioStreamClose("caller") /\ NoFailure
    \/ AudioTerminate("caller") /\ NoFailure
    \/ AudioResetStopChan("caller")
    \/ AudioSaveToFile("caller") /\ NoFailure
    \/ ScreenStartRecording("caller")
    \/ ScreenNumActiveDisplays("caller") /\ pc'["caller"] # "sRevert"
    \/ ScreenGo("caller")
    \/ ScreenStopRecording("caller")
    \/ ScreenCloseStopChan("caller")
    \/ ScreenWait("caller")
    \/ ScreenResetStopChan("caller")
    \/ ScreenSaveToFile("caller") /\ NoFailure
    \/ processAudio
    \/ recordingLoop
    \/ \E i \in LoopIds : captureLoopFirst(i) /\ NoFailure
    \/ \E i \in LoopIds : captureLoopTick(i) /\ NoFailure
    \/ \E i \in LoopIds : captureScreen(i)
    \/ \E i \in LoopIds : captureLoopStop(i)

SpecReuse == Init /\ [][NextReuse]_vars

\* ------------------------------------------------- the exit handler
\* systray calls onExit on its own goroutine when the application quits; the
\* toggle goroutine is not stopped first. Thread "caller" makes the recorder
\* calls of the exit handler.
ExitSteps == {"stopAudio", "stopScreen", "saveAudio", "saveScreenshot"}

ExitAt(p) == [onExit EXCEPT !.at = p]

\* onExit, lines 106-109: if t.isRecording { t.stopRecording() }; otherwise
\* the handler only logs and returns
ExitCalled ==
    /\ onExit.at = "none"
    /\ pc["caller"] = "idle"
    /\ IF isRecording
       THEN /\ Call("caller", "aStop", NoPath)
            /\ onExit' = ExitAt("stopAudio")
       ELSE /\ onExit' = ExitAt("done")
            /\ UNCHANGED callVars
    /\ UNCHANGED <<recVars, audioVars, screenVars, envVars, files, panicked,
                   tpc, isRecording, timestamp, audioFile, screenshotFile,
                   uploads>>

\* stopRecording, lines 135-140, run by the exit handler
ExitStopAudioReturned ==
    /\ onExit.at = "stopAudio"
    /\ pc["caller"] = "idle"
    /\ Call("caller", "sStop", NoPath)
    /\ onExit' = ExitAt("stopScreen")
    /\ UNCHANGED <<recVars, audioVars, screenVars, envVars, files, panicked,
                   tpc, isRecording, timestamp, audioFile, screenshotFile,
                   uploads>>

\* stopRecording, lines 140-147, run by the exit handler
ExitStopScreenReturned ==
    /\ onExit.at = "stopScreen"
    /\ pc["caller"] = "idle"
    /\ \E t \in now..MaxTime :
         /\ now' = t
         /\ onExit' = [at |-> "saveAudio", timestamp |-> t,
                       audioFile |-> AudioPath(t), screenshotFile |-> NoPath]
         /\ Call("caller", "aSave", AudioPath(t))
    /\ UNCHANGED <<recVars, audioVars, screenVars, files, panicked,
                   tpc, isRecording, timestamp, audioFile, screenshotFile,
                   uploads>>

\* stopRecording, lines 168-200, run by the exit handler: the upload goroutine
\* is started and t.isRecording = false
ExitHandOff(shot) ==
    /\ uploads' = uploads \cup {[audio |-> onExit.audioFile, screenshot |-> shot]}
    /\ isRecording' = FALSE
    /\ onExit' = [NoExit EXCEPT !.at = "done"]
    /\ Forget("caller")
    /\ UNCHANGED <<tpc, timestamp, audioFile, screenshotFile>>

\* stopRecording, lines 147-158, run by the exit handler
ExitSaveAudioReturned ==
    /\ onExit.at = "saveAudio"
    /\ pc["caller"] = "idle"
    /\ IF latestImage # NoImage
       THEN /\ onExit' = [onExit EXCEPT
                             !.at = "saveScreenshot",
                             !.screenshotFile = ScreenshotPath(onExit.timestamp)]
            /\ Call("caller", "sSave", ScreenshotPath(onExit.timestamp))
            /\ UNCHANGED <<tpc, isRecording, timestamp, audioFile,
                           screenshotFile, uploads>>
       ELSE ExitHandOff(NoPath)
    /\ UNCHANGED <<recVars, audioVars, screenVars, envVars, files, panicked>>

\* stopRecording, lines 158-200, run by the exit handler
ExitSaveScreenshotReturned ==
    /\ onExit.at = "saveScreenshot"
    /\ pc["caller"] = "idle"
    /\ ExitHandOff(onExit.screenshotFile)
    /\ UNCHANGED <<recVars, audioVars, screenVars, envVars, files, panicked>>

\* onExit has returned (line 110) and the process ends: every goroutine is
\* gone, the uploads in flight with them, and the operating system releases
\* the audio device
ProcessEnds ==
    /\ onExit.at = "done"
    /\ onExit' = ExitAt("gone")
    /\ pc' = [c \in Threads |-> "gone"]
    /\ tpc' = "gone"
    /\ audioLoops' = 0
    /\ captureLoops' = [i \in LoopIds |-> NoLoop]
    /\ stream' = IF stream = "nil" THEN "nil" ELSE "closed"
    /\ leaked' = [open |-> 0, active |-> 0]
    /\ paInit' = 0
    /\ uploads' = {}
    /\ UNCHANGED <<recVars, buffer, latestImage, files, now, panicked, op, ret,
                   arg, isRecording, timestamp, audioFile, screenshotFile>>

\* The toggle goroutine and the exit handler; as in NextReuse no device,
\* capture or file call fails: the two handlers meet in the recorders whether
\* or not a call fails, and a call made in an unexpected state is still
\* answered with its error.
NextExit ==
    \/ Click
    \/ StartAudioReturned
    \/ StartScreenReturned
    \/ StopAudioReturned
    \/ StopScreenReturned
    \/ SaveAudioReturned
    \/ SaveScreenshotReturned
    \/ UploadReturned
    \/ ExitCalled
    \/ ExitStopAudioReturned
    \/ ExitStopScreenReturned
    \/ ExitSaveAudioReturned
    \/ ExitSaveScreenshotReturned
    \/ ProcessEnds
    \/ AudioStartRecording("toggle")
    \/ AudioInitialize("toggle") /\ NoFailure
    \/ AudioOpenStream("toggle") /\ NoFailure
    \/ AudioStreamStart("toggle") /\ NoFailure
    \/ AudioGo("toggle")
    \/ ScreenStartRecording("toggle")
    \/ ScreenNumActiveDisplays("toggle") /\ pc'["toggle"] # "sRevert"
    \/ ScreenGo("toggle")
    \/ \E c \in Threads : AudioStopRecording(c)
    \/ \E c \in Threads : AudioCloseStopChan(c)
    \/ \E c \in Threads : AudioWait(c)
    \/ \E c \in Threads : AudioStreamStop(c) /\ NoFailure
    \/ \E c \in Threads : AudioStreamClose(c) /\ NoFailure
    \/ \E c \in Threads : AudioTerminate(c) /\ NoFailure
    \/ \E c \in Threads : AudioResetStopChan(c)
    \/ \E c \in Threads : AudioSaveToFile(c) /\ NoFailure
    \/ \E c \in Threads : ScreenStopRecording(c)
    \/ \E c \in Threads : ScreenCloseStopChan(c)
    \/ \E c \in Threads : ScreenWait(c)
    \/ \E c \in Threads : ScreenResetStopChan(c)
    \/ \E c \in Threads : ScreenSaveToFile(c) /\ NoFailure
    \/ processAudio
    \/ recordingLoop
    \/ \E i \in LoopIds : captureLoopFirst(i) /\ NoFailure
    \/ \E i \in LoopIds : captureLoopTick(i) /\ NoFailure
    \/ \E i \in LoopIds : captureScreen(i)
    \/ \E i \in LoopIds : captureLoopStop(i)

SpecExit == Init /\ [][NextExit]_vars

\* ------------------------------------------- two concurrent callers
\* both threads have returned from the method they last called on recorder r
\* (or have called nothing yet)
BothIdle(r) ==
    /\ \A c \in Threads : pc[c] = "idle"
    /\ \A c \in Threads : op[c] = "none" \/ \E m \in Methods : op[c] = Entry(r, m)

\* every thread calls StartRecording on the Idle recorder r: the calls overlap
RaceStartRecording(r) ==
    /\ BothIdle(r)
    /\ ~recording[r]
    /\ period[r] < MaxPeriods
    /\ pc' = [c \in Threads |-> Entry(r, "Start")]
    /\ op' = [c \in Threads |-> Entry(r, "Start")]
    /\ UNCHANGED <<ret, arg, recVars, audioVars, screenVars, envVars, files,
                   panicked, trayVars>>

\* every thread calls StopRecording on the Recording recorder r
RaceStopRecording(r) ==
    /\ BothIdle(r)
    /\ recording[r]
    /\ pc' = [c \in Threads |-> Entry(r, "Stop")]
    /\ op' = [c \in Threads |-> Entry(r, "Stop")]
    /\ UNCHANGED <<ret, arg, recVars, audioVars, screenVars, envVars, files,
                   panicked, trayVars>>

NextRace ==
    \/ \E r \in Recorders : RaceStartRecording(r)
    \/ \E r \in Recorders : RaceStopRecording(r)
    \/ \E c \in Threads : AudioStartRecording(c)
    \/ \E c \in Threads : AudioInitialize(c)
    \/ \E c \in Threads : AudioOpenStream(c)
    \/ \E c \in Threads : AudioStreamStart(c)
    \/ \E c \in Threads : AudioGo(c)
    \/ \E c \in Threads : AudioStopRecording(c)
    \/ \E c \in Threads : AudioCloseStopChan(c)
    \/ \E c \in Threads : AudioWait(c)
    \/ \E c \in Threads : AudioStreamStop(c)
    \/ \E c \in Threads : AudioStreamClose(c)
    \/ \E c \in Threads : AudioTerminate(c)
    \/ \E c \in Threads : AudioResetStopChan(c)
    \/ \E c \in Threads : ScreenStartRecording(c)
    \/ \E c \in Threads : ScreenNumActiveDisplays(c)
    \/ \E c \in Threads : ScreenRevert(c)
    \/ \E c \in Threads : ScreenGo(c)
    \/ \E c \in Threads : ScreenStopRecording(c)
    \/ \E c \in Threads : ScreenCloseStopChan(c)
    \/ \E c \in Threads : ScreenWait(c)
    \/ \E c \in Threads : ScreenResetStopChan(c)
    \/ Background

SpecRace == Init /\ [][NextRace]_vars

\* ------------------------------------------- calls that overlap freely
\* every thread has so far called only StartRecording / StopRecording of
\* recorder r (a behaviour exercises one recorder)
OnlyOn(r) ==
    \A c \in Threads :
       op[c] = "none" \/ \E m \in {"Start", "Stop"} : op[c] = Entry(r, m)

\* thread c, in no method, calls StartRecording of recorder r, whatever the
\* other thread is doing (every call entered may begin a recording period:
\* the calls entered are counted against the bound on the periods)
OverlapStartRecording(c, r) ==
    /\ pc[c] = "idle"
    /\ OnlyOn(r)
    /\ period[r] + Cardinality({d \in Threads : pc[d] = Entry(r, "Start")})
          < MaxPeriods
    /\ Call(c, Entry(r, "Start"), NoPath)
    /\ UNCHANGED <<recVars, audioVars, screenVars, envVars, files, panicked,
                   trayVars>>

\* thread c, in no method, calls StopRecording of recorder r
OverlapStopRecording(c, r) ==
    /\ pc[c] = "idle"
    /\ OnlyOn(r)
    /\ Call(c, Entry(r, "Stop"), NoPath)
    /\ UNCHANGED <<recVars, audioVars, screenVars, envVars, files, panicked,
                   trayVars>>

\* the overlapping calls are followed in runs in which no device, display or
\* capture call fails
NextOverlap ==
    \/ \E c \in Threads, r \in Recorders : OverlapStartRecording(c, r)
    \/ \E c \in Threads, r \in Recorders : OverlapStopRecording(c, r)
    \/ \E c \in Threads : AudioStartRecording(c)
    \/ \E c \in Threads : AudioInitialize(c) /\ NoFailure
    \/ \E c \in Threads : AudioOpenStream(c) /\ NoFailure
    \/ \E c \in Threads : AudioStreamStart(c) /\ NoFailure
    \/ \E c \in Threads : AudioGo(c)
    \/ \E c \in Threads : AudioStopRecording(c)
    \/ \E c \in Threads : AudioCloseStopChan(c)
    \/ \E c \in Threads : AudioWait(c)
    \/ \E c \in Threads : AudioStreamStop(c) /\ NoFailure
    \/ \E c \in Threads : AudioStreamClose(c) /\ NoFailure
    \/ \E c \in Threads : AudioTerminate(c) /\ NoFailure
    \/ \E c \in Threads : AudioResetStopChan(c)
    \/ \E c \in Threads : ScreenStartRecording(c)
    \/ \E c \in Threads : ScreenNumActiveDisplays(c) /\ pc'[c] # "sRevert"
    \/ \E c \in Threads : ScreenGo(c)
    \/ \E c \in Threads : ScreenStopRecording(c)
    \/ \E c \in Threads : ScreenCloseStopChan(c)
    \/ \E c \in Threads : ScreenWait(c)
    \/ \E c \in Threads : ScreenResetStopChan(c)
    \/ processAudio
    \/ recordingLoop
    \/ \E i \in LoopIds : captureLoopFirst(i) /\ NoFailure
    \/ \E i \in LoopIds : captureLoopTick(i) /\ NoFailure
    \/ \E i \in LoopIds : captureScreen(i)
    \/ \E i \in LoopIds : captureLoopStop(i)

SpecOverlap == Init /\ [][NextOverlap]_vars

\* ------------------------------------------- a concurrent observer
\* the bool a method returns, as held in ret
Bool(b) == IF b THEN "true" ELSE "false"

\* the position at which IsRecording of recorder r is entered
IsRecordingEntry(r) == IF r = "audio" THEN "aIsRecording" ELSE "sIsRecording"

\* a second goroutine calls IsRecording at any moment
CallIsRecording(r) ==
    /\ pc["toggle"] = "idle"
    /\ Call("toggle", IsRecordingEntry(r), NoPath)
    /\ UNCHANGED <<recVars, audioVars, screenVars, envVars, files, panicked,
                   trayVars>>

\* audio IsRecording, lines 230-234: return r.recording, under r.mu
AudioIsRecording(c) ==
    /\ pc[c] = "aIsRecording"
    /\ Return(c, Bool(recording["audio"]))
    /\ UNCHANGED <<recVars, audioVars, screenVars, envVars, files, panicked,
                   trayVars>>

\* screen IsRecording, lines 146-150: return r.recording, under r.mu
ScreenIsRecording(c) ==
    /\ pc[c] = "sIsRecording"
    /\ Return(c, Bool(recording["screen"]))
    /\ UNCHANGED <<recVars, audioVars, screenVars, envVars, files, panicked,
                   trayVars>>

NextObserve ==
    \/ \E r \in Recorders : CallStartRecording(r)
    \/ \E r \in Recorders : CallStopRecording(r)
    \/ \E r \in Recorders : CallIsRecording(r)
    \/ AudioIsRecording("toggle")
    \/ ScreenIsRecording("toggle")
    \/ AudioStartRecording("caller")
    \/ AudioInitialize("caller")
    \/ AudioOpenStream("caller")
    \/ AudioStreamStart("caller")
    \/ AudioGo("caller")
    \/ AudioStopRecording("caller")
    \/ AudioCloseStopChan("caller")
    \/ AudioWait("caller")
    \/ AudioStreamStop("caller")
    \/ AudioStreamClose("caller")
    \/ AudioTerminate("caller")
    \/ AudioResetStopChan("caller")
    \/ ScreenStartRecording("caller")
    \/ ScreenNumActiveDisplays("caller")
    \/ ScreenRevert("caller")
    \/ ScreenGo("caller")
    \/ ScreenStopRecording("caller")
    \/ ScreenCloseStopChan("caller")
    \/ ScreenWait("caller")
    \/ ScreenResetStopChan("caller")
    \/ Background

SpecObserve == Init /\ [][NextObserve]_vars

\* ------------------------------------------- the lock r.mu made explicit
\* SaveToFile holds r.mu from its first line to its return (the deferred
\* Unlock) while it makes several writes; here it is cut at these writes, and
\* a thread holds r.mu of recorder r exactly while it is at one of the
\* positions after the Lock.
Holding(r) ==
    IF r = "audio" THEN {"aSaveHeader", "aSaveData"} ELSE {"sSaveEncode"}

HeldBy(r) == {c \in Threads : pc[c] \in Holding(r)}

\* the position at which the stepwise SaveToFile of recorder r is entered
LockedEntry(r) == IF r = "audio" THEN "aSaveLock" ELSE "sSaveLock"

LockedCallSaveToFile(r) ==
    /\ pc["caller"] = "idle"
    /\ op["caller"] = "none" \/ op["caller"] = LockedEntry(r)
          \/ \E m \in {"Start", "Stop"} : op["caller"] = Entry(r, m)
    /\ \E f \in CallerPaths(r) : Call("caller", LockedEntry(r), f)
    /\ UNCHANGED <<recVars, audioVars, screenVars, envVars, files, panicked,
                   trayVars>>

\* the direct caller drives recorder r with StartRecording, StopRecording and
\* the stepwise SaveToFile
LockedDrives(r) == op["caller"] \in {"none", LockedEntry(r)} \/ Drives(r)

\* the WAV file under construction: the data size its header announces and
\* the samples written after the header
WavParts(size, samples) == [kind |-> "wav", dataSize |-> size, data |-> samples]

\* audio SaveToFile, lines 120-125: r.mu.Lock(); the check for an empty buffer
AudioSaveLock(c) ==
    /\ pc[c] = "aSaveLock"
    /\ HeldBy("audio") = {}
    /\ IF SampleCount(buffer) = 0
       THEN Return(c, ErrNoAudioData)
       ELSE Goto(c, "aSaveHeader")
    /\ UNCHANGED <<recVars, audioVars, screenVars, now, files, panicked, trayVars>>

\* audio SaveToFile, lines 127-136: os.Create and
\* writeWAVHeader(file, len(r.buffer)*2)
AudioSaveHeader(c) ==
    /\ pc[c] = "aSaveHeader"
    /\ files' = [files EXCEPT ![arg[c]] = WavParts(SampleCount(buffer) * 2, <<>>)]
    /\ Goto(c, "aSaveData")
    /\ UNCHANGED <<recVars, audioVars, screenVars, now, panicked, trayVars>>

\* audio SaveToFile, lines 139-150: the samples of r.buffer are written; the
\* deferred Unlock
AudioSaveData(c) ==
    /\ pc[c] = "aSaveData"
    /\ files' = [files EXCEPT ![arg[c]] = WavParts(files[arg[c]].dataSize, buffer)]
    /\ Return(c, Nil)
    /\ UNCHANGED <<recVars, audioVars, screenVars, now, panicked, trayVars>>

\* screen SaveToFile, lines 78-83: r.mu.Lock(); the check for a nil image
ScreenSaveLock(c) ==
    /\ pc[c] = "sSaveLock"
    /\ HeldBy("screen") = {}
    /\ IF latestImage = NoImage
       THEN Return(c, ErrNoScreenshot)
       ELSE Goto(c, "sSaveEncode")
    /\ UNCHANGED <<recVars, audioVars, screenVars, now, files, panicked, trayVars>>

\* screen SaveToFile, lines 85-95: os.Create and png.Encode(file,
\* r.latestImage); the deferred Unlock
ScreenSaveEncode(c) ==
    /\ pc[c] = "sSaveEncode"
    /\ files' = [files EXCEPT ![arg[c]] = PngFile(latestImage)]
    /\ Return(c, Nil)
    /\ UNCHANGED <<recVars, audioVars, screenVars, now, panicked, trayVars>>

\* mutant: processAudio appends without taking r.mu
UnlockedProcessAudio == processAudio

\* processAudio, lines 155-156: r.mu.Lock() before the append
LockedProcessAudio == HeldBy("audio") = {} /\ processAudio

\* captureScreen, lines 140-142: r.mu.Lock() before the store
LockedCaptureScreen(i) == HeldBy("screen") = {} /\ captureScreen(i)

NextLocked ==
    \/ \E r \in Recorders : LockedDrives(r) /\ CallStartRecording(r)
    \/ \E r \in Recorders : LockedDrives(r) /\ CallStopRecording(r)
    \/ \E r \in Recorders : LockedCallSaveToFile(r)
    \/ AudioStartRecording("caller")
    \/ AudioInitialize("caller")
    \/ AudioOpenStream("caller")
    \/ AudioStreamStart("caller")
    \/ AudioGo("caller")
    \/ AudioStopRecording("caller")
    \/ AudioCloseStopChan("caller")
    \/ AudioWait("caller")
    \/ AudioStreamStop("caller")
    \/ AudioStreamClose("caller")
    \/ AudioTerminate("caller")
    \/ AudioResetStopChan("caller")
    \/ AudioSaveLock("caller")
    \/ AudioSaveHeader("caller")
    \/ AudioSaveData("caller")
    \/ ScreenStartRecording("caller")
    \/ ScreenNumActiveDisplays("caller")
    \/ ScreenRevert("caller")
    \/ ScreenGo("caller")
    \/ ScreenStopRecording("caller")
    \/ ScreenCloseStopChan("caller")
    \/ ScreenWait("caller")
    \/ ScreenResetStopChan("caller")
    \/ ScreenSaveLock("caller")
    \/ ScreenSaveEncode("caller")
    \/ LockedProcessAudio
    \/ recordingLoop
    \/ \E i \in LoopIds : captureLoopFirst(i)
    \/ \E i \in LoopIds : captureLoopTick(i)
    \/ \E i \in LoopIds : LockedCaptureScreen(i)
    \/ \E i \in LoopIds : captureLoopStop(i)

SpecLocked == Init /\ [][NextLocked]_vars

\* ------------------------------------------------- the bytes of a WAV file
\* SaveToFile and writeWAVHeader byte by byte.  In SpecWav the variable buffer
\* holds r.buffer sample by sample: len is len(r.buffer) and head its first
\* samples (all of them when there are at most MaxHead).  A length is a Go
\* int of 64 bits, held in two limbs of 24 bits: the value is hi * 2^24 + lo.
Limb == 256 * 256 * 256

BigOf(n) == [lo |-> n % Limb, hi |-> n \div Limb]

\* a + k for a small k
BigAdd(a, k) ==
    LET s == a.lo + k IN [lo |-> s % Limb, hi |-> a.hi + (s \div Limb)]

\* len(r.buffer)*2
BigDouble(a) ==
    LET s == 2 * a.lo IN [lo |-> s % Limb, hi |-> 2 * a.hi + (s \div Limb)]

\* binary.Write(w, binary.LittleEndian, int32(a)): the conversion keeps the low
\* 32 bits, written low byte first
Int32LE(a) ==
    <<a.lo % 256, (a.lo \div 256) % 256, a.lo \div 65536, a.hi % 256>>

\* binary.Write(w, binary.LittleEndian, int16(v)): two's complement, low byte
\* first
Int16LE(v) ==
    LET u == v % 65536 IN <<u % 256, u \div 256>>

\* []byte("RIFF"), []byte("WAVE"), []byte("fmt "), []byte("data")
RIFF == <<82, 73, 70, 70>>
WAVE == <<87, 65, 86, 69>>
FMT == <<102, 109, 116, 32>>
DATA == <<100, 97, 116, 97>>

\* mutant: the RIFF chunk size leaves out the 36 header bytes that follow it
writeWAVHeader_NoOffset(dataSize) ==
    RIFF \o Int32LE(dataSize) \o WAVE
      \o FMT \o Int32LE(BigOf(16)) \o Int16LE(1) \o Int16LE(channels)
      \o Int32LE(BigOf(sampleRate)) \o Int32LE(BigOf(sampleRate * channels * 2))
      \o Int16LE(channels * 2) \o Int16LE(16)
      \o DATA \o Int32LE(dataSize)

\* writeWAVHeader, lines 170-217
writeWAVHeader(dataSize) ==
    RIFF \o Int32LE(BigAdd(dataSize, 36)) \o WAVE
      \o FMT \o Int32LE(BigOf(16)) \o Int16LE(1) \o Int16LE(channels)
      \o Int32LE(BigOf(sampleRate)) \o Int32LE(BigOf(sampleRate * channels * 2))
      \o Int16LE(channels * 2) \o Int16LE(16)
      \o DATA \o Int32LE(dataSize)

\* SaveToFile, lines 137-143: every sample of the buffer, in order
RECURSIVE SampleBytes(_)
SampleBytes(samples) ==
    IF samples = <<>> THEN <<>>
    ELSE Int16LE(Head(samples)) \o SampleBytes(Tail(samples))

\* SaveToFile, lines 134-148, every write succeeding: the header, the bytes of
\* the leading samples, and the number of bytes written in all
WavBytes(buf) ==
    LET header == writeWAVHeader(BigDouble(buf.len))
    IN [kind   |-> "wav",
        header |-> header,
        head   |-> SampleBytes(buf.head),
        size   |-> BigAdd(BigDouble(buf.len), Len(header))]

\* values an int16 sample may have
Samples == {-32768, -1, 0, 1, 258, 32767}

\* len(r.buffer): short buffers, and buffers around 2^31 samples, where
\* len*2+36 passes 2^32
SampleCounts ==
    {[lo |-> l, hi |-> h] :
        l \in {1, 2, 3, Limb - 19, Limb - 18, Limb - 1}, h \in {0, 1, 127, 128, 255}}

\* the first samples of a buffer of n samples
Heads(n) ==
    IF n.hi = 0 /\ n.lo < MaxHead
    THEN [1..n.lo -> Samples]
    ELSE [1..MaxHead -> Samples]

WavBuffers ==
    UNION {{[len |-> n, head |-> h] : h \in Heads(n)} : n \in SampleCounts}

InitWav ==
    /\ buffer \in WavBuffers
    /\ recording = [r \in Recorders |-> FALSE]
    /\ stopChan = [r \in Recorders |-> "open"]
    /\ wg = [r \in Recorders |-> 0]
    /\ period = [r \in Recorders |-> 0]
    /\ stream = "nil"
    /\ paInit = 0
    /\ leaked = [open |-> 0, active |-> 0]
    /\ audioLoops = 0
    /\ latestImage = NoImage
    /\ captureLoops = [i \in LoopIds |-> NoLoop]
    /\ files = [p \in Paths |-> NoFile]
    /\ now = 0
    /\ panicked = FALSE
    /\ pc = [c \in Threads |-> "idle"]
    /\ op = [c \in Threads |-> "none"]
    /\ ret = [c \in Threads |-> Nil]
    /\ arg = [c \in Threads |-> NoPath]
    /\ tpc = "wait"
    /\ isRecording = FALSE
    /\ timestamp = 0
    /\ audioFile = NoPath
    /\ screenshotFile = NoPath
    /\ uploads = {}
    /\ onExit = NoExit

\* SaveToFile(filename) on the non-empty buffer, every write succeeding
WavSaveToFile ==
    /\ op["caller"] = "none"
    /\ \E f \in CallerPaths("audio") :
         files' = [files EXCEPT ![f] = WavBytes(buffer)]
    /\ op' = [op EXCEPT !["caller"] = "aSave"]
    /\ UNCHANGED <<recVars, audioVars, screenVars, envVars, panicked, pc, ret,
                   arg, trayVars>>

NextWav == WavSaveToFile

SpecWav == InitWav /\ [][NextWav]_vars

\* ------------------------------------------------------------------ claims
\* live background activities of recorder r
Loops(r) == IF r = "audio" THEN audioLoops ELSE Cardinality(LiveLoops)

\* the payload of recorder r
Payload(r) == IF r = "audio" THEN buffer ELSE <<latestImage>>

\* the whole state of the recorders
recorderState == <<recording, stopChan, wg, period, buffer, stream, paInit,
                   leaked, audioLoops, latestImage, captureLoops>>

\* the direct caller has returned from method m of recorder r with v
Returned(r, m, v) ==
    /\ pc["caller"] = "idle"
    /\ op["caller"] = Entry(r, m)
    /\ ret["caller"] = v

\* the direct caller takes the first step (the one under r.mu) of method m
Enters(r, m) ==
    /\ pc["caller"] = Entry(r, m)
    /\ pc'["caller"] # pc["caller"]

\* C1: a StartRecording made while the recorder is Recording returns "already
\* recording" and changes nothing in the recorder: the state stays Recording,
\* the payload is not cleared, the stop channel is not replaced and no
\* goroutine is started.
C1_StartWhileRecordingRejected ==
    [][\A r \in Recorders :
         (Enters(r, "Start") /\ recording[r]) =>
            /\ pc'["caller"] = "idle"
            /\ ret'["caller"] = ErrAlreadyRecording
            /\ UNCHANGED recorderState]_vars

C1_Witness ==
    /\ Returned("audio", "Start", ErrAlreadyRecording)
    /\ recording["audio"]
    /\ Len(buffer) > 0
    /\ audioLoops = 1

\* C2: a StopRecording made while the recorder is Idle returns "not recording"
\* and changes nothing in the recorder: the state stays Idle, the stop channel
\* is not closed and the payload is not touched.
C2_StopWhileIdleRejected ==
    [][\A r \in Recorders :
         (Enters(r, "Stop") /\ ~recording[r]) =>
            /\ pc'["caller"] = "idle"
            /\ ret'["caller"] = ErrNotRecording
            /\ UNCHANGED recorderState]_vars

C2_Witness ==
    /\ Returned("audio", "Stop", ErrNotRecording)
    /\ ~recording["audio"]
    /\ stopChan["audio"] = "open"
    /\ Len(buffer) > 0

\* C3: when the audio StartRecording has returned a device error (initialize,
\* open or start failed), the audio recorder is Idle and no recordingLoop is
\* running.
C3_FailedAudioStartLeavesIdle ==
    \A e \in DeviceErrors :
       Returned("audio", "Start", e) =>
          /\ ~recording["audio"]
          /\ audioLoops = 0

\* after a StartRecording that found no display the screen recorder is as it
\* was constructed
C4_NoDisplayLeavesIdle ==
    Returned("screen", "Start", ErrNoDisplays) =>
       /\ ~recording["screen"]
       /\ Loops("screen") = 0
       /\ wg["screen"] = 0
       /\ stopChan["screen"] = "open"

\* the StartRecording that follows a "no active displays found" passes the
\* check under r.mu and, having found a display, starts the captureLoop
C4_RetryStep ==
    (op["caller"] = "sStart" /\ ret["caller"] = ErrNoDisplays) =>
       /\ Enters("screen", "Start") => pc'["caller"] = "sDisplays"
       /\ (pc["caller"] = "sGo" /\ pc'["caller"] # "sGo") =>
             /\ pc'["caller"] = "idle"
             /\ ret'["caller"] = Nil
             /\ recording'["screen"]
             /\ Loops("screen")' = 1

\* C4: when the screen StartRecording has returned "no active displays
\* found", the screen recorder is Idle, no captureLoop has been started and
\* the stop channel is open; and the StartRecording that follows is not
\* rejected and, once it has found a display, returns nil with the recorder
\* Recording and its captureLoop started.
C4_NoDisplayStartCanBeRetried ==
    []C4_NoDisplayLeavesIdle /\ [][C4_RetryStep]_vars

C4_Witness ==
    /\ op["caller"] = "sStart"
    /\ ret["caller"] = ErrNoDisplays
    /\ pc["caller"] = "sGo"
    /\ period["screen"] = 2

\* C5: when a StopRecording has returned nil, no background activity of the
\* recorder is alive, and none is alive at any time the recorder is Idle and
\* the caller is not between the close of the stop channel and the end of
\* the wait in StopRecording.
C5_StopJoinsBackgroundActivity ==
    \A r \in Recorders :
       /\ Returned(r, "Stop", Nil) => Loops(r) = 0
       /\ (~recording[r] /\ pc["caller"] \notin {"aClose", "aWait", "sClose", "sWait"})
             => Loops(r) = 0

C5_Witness ==
    /\ Returned("audio", "Stop", Nil)
    /\ Len(buffer) > 0
    /\ period["audio"] = 2

\* recorder r is Idle, its StopRecording is past the wait and the next
\* StartRecording has not been called
Quiescent(r) ==
    /\ ~recording[r]
    /\ pc["caller"] \notin {Entry(r, "Start"), "aClose", "aWait", "sClose", "sWait"}

\* C6: from the moment StopRecording has passed its wait (or has returned an
\* error with the state Idle) until StartRecording is called again, no step
\* changes the payload, also while a started stream keeps delivering callbacks.
C6_PayloadQuiescentAfterStop ==
    [][\A r \in Recorders : Quiescent(r) => Payload(r)' = Payload(r)]_vars

C6_Witness ==
    /\ Returned("audio", "Stop", ErrStopStream)
    /\ ~recording["audio"]
    /\ stream = "active"
    /\ Len(buffer) > 0

\* C7: the payload holds only what was captured in the current recording
\* period (every sample of the buffer, and the latest frame, carries the number
\* of the period begun by the last StartRecording), every audio file holds
\* samples of one period only, and a SaveToFile that has returned nil on an Idle
\* recorder has written that payload.
C7_NoLeakageBetweenPeriods ==
    /\ \A i \in DOMAIN buffer : buffer[i] = period["audio"]
    /\ PeriodOf(latestImage) \in {0, period["screen"]}
    /\ \A f \in Paths :
         files[f].kind = "wav" =>
            \A i, j \in DOMAIN files[f].data : files[f].data[i] = files[f].data[j]
    /\ \A r \in Recorders :
         (Returned(r, "Save", Nil) /\ ~recording[r]) =>
            \E f \in CallerPaths(r) :
               files[f] = IF r = "audio" THEN WavFile(buffer) ELSE PngFile(latestImage)

C7_Witness ==
    /\ Returned("audio", "Save", Nil)
    /\ ~recording["audio"]
    /\ period["audio"] = 2
    /\ files[<<"audio", 0>>] = WavFile(<<1, 1>>)
    /\ files[<<"audio", 1>>] = WavFile(<<2>>)

\* recorder r is Idle with an open stop channel and no background activity
Fresh(r) ==
    /\ ~recording[r]
    /\ stopChan[r] = "open"
    /\ wg[r] = 0
    /\ Loops(r) = 0

\* recorder r is Recording with an open stop channel and one background
\* activity
Running(r) ==
    /\ recording[r]
    /\ stopChan[r] = "open"
    /\ wg[r] = 1
    /\ Loops(r) = 1

\* C8: in a run in which no device, display, capture or file call fails and
\* the caller alternates StartRecording and StopRecording, every
\* StartRecording returns nil and leaves the recorder Recording with one
\* background activity, every StopRecording returns nil and leaves it Idle
\* with none, and between calls the stop channel is open.
C8_RecorderIsReusable ==
    \A r \in Recorders :
       /\ pc["caller"] = "idle" => (Fresh(r) \/ Running(r))
       /\ (pc["caller"] = "idle" /\ op["caller"] = Entry(r, "Start"))
             => (ret["caller"] = Nil /\ Running(r))
       /\ (pc["caller"] = "idle" /\ op["caller"] = Entry(r, "Stop"))
             => (ret["caller"] = Nil /\ Fresh(r))

C8_Witness ==
    /\ Returned("audio", "Stop", Nil)
    /\ period["audio"] = 2
    /\ Fresh("audio")
    /\ stream = "closed"

\* C9: whenever a StartRecording has returned nil, the recorder's stop channel
\* is open.
C9_StopChanOpenAtEverySuccessfulStart ==
    \A r \in Recorders :
       Returned(r, "Start", Nil) => stopChan[r] = "open"

\* C10: no sequence of toggles and failures ends the process with a panic.
C10_NoPanic == ~panicked

\* both threads have returned from the method m they called together on r
RaceOver(r, m) ==
    \A c \in Threads : pc[c] = "idle" /\ op[c] = Entry(r, m)

\* the threads whose call of the race returned v
Got(v) == {c \in Threads : ret[c] = v}

Saves(r) ==
    /\ pc["caller"] = Entry(r, "Save")
    /\ pc'["caller"] = "idle"

\* C12: the audio SaveToFile on an empty buffer (never started, or started and
\* stopped with no samples delivered) returns "no audio data to save", creates
\* or truncates no file and changes nothing in the recorder.
C12_EmptyBufferSaveRejected ==
    [][(Saves("audio") /\ SampleCount(buffer) = 0) =>
          /\ ret'["caller"] = ErrNoAudioData
          /\ files' = files
          /\ UNCHANGED recorderState]_vars

\* the second period delivered no samples, and the file saved in the first
\* period is still there
C12_Witness ==
    /\ Returned("audio", "Save", ErrNoAudioData)
    /\ ~recording["audio"]
    /\ period["audio"] = 2
    /\ files[<<"audio", 0>>] = WavFile(<<1>>)
    /\ files[<<"audio", 1>>] = NoFile

\* C13: the screen SaveToFile returns "no screenshot to save" and writes no
\* file whenever the recorder holds no frame captured in the period begun by
\* the last StartRecording, also when an earlier period had captured a frame.
C13_NoFrameThisPeriodSaveRejected ==
    [][(Saves("screen") /\ PeriodOf(latestImage) # period["screen"]) =>
          /\ ret'["caller"] = ErrNoScreenshot
          /\ files' = files]_vars

\* the first period's frame was saved; the second period captured none
C13_Witness ==
    /\ Returned("screen", "Save", ErrNoScreenshot)
    /\ period["screen"] = 2
    /\ latestImage = NoImage
    /\ \E f \in CallerPaths("screen") : files[f] = PngFile(Frame(1, 1))

\* the number the four bytes b[i..i+3] hold, low byte first
Decode32(b, i) ==
    [lo |-> b[i] + 256 * b[i + 1] + 65536 * b[i + 2], hi |-> b[i + 3]]

\* the int16 the two bytes b[i], b[i+1] hold, low byte first
Decode16(b, i) ==
    LET u == b[i] + 256 * b[i + 1] IN IF u >= 32768 THEN u - 65536 ELSE u

\* the low 32 bits of a
Mod32(a) == [lo |-> a.lo, hi |-> a.hi % 256]

\* the file f holds 44 + 2*S bytes for the buffer's S samples, and after the
\* header the samples in buffer order, two bytes each
WavLayout(f) ==
    /\ Len(f.header) = 44
    /\ f.size = BigAdd(BigDouble(buffer.len), 44)
    /\ Len(f.head) = 2 * Len(buffer.head)
    /\ \A i \in DOMAIN buffer.head : Decode16(f.head, 2 * i - 1) = buffer.head[i]

WavFiles == {files[f] : f \in {g \in Paths : files[g] # NoFile}}

C15_SaveIsPureAndDeterministic ==
    [][Saves("audio") =>
          /\ UNCHANGED recorderState
          /\ ret'["caller"] = Nil =>
                /\ files'[arg["caller"]] = WavFile(buffer)
                /\ \A g \in Paths :
                      files[g] = WavFile(buffer) => files'[g] = files'[arg["caller"]]]_vars

\* two SaveToFile calls on the Idle recorder, with no start between them, have
\* written the same file under two names
C15_Witness ==
    /\ Returned("audio", "Save", Nil)
    /\ ~recording["audio"]
    /\ period["audio"] = 1
    /\ Len(buffer) = 2
    /\ files[<<"audio", 0>>] = WavFile(buffer)
    /\ files[<<"audio", 1>>] = files[<<"audio", 0>>]

\* the time.Duration of k callbacks of 1024 samples, rounded towards zero:
\* 1024 / 44100 s is 23219954 ns and 286/441 of one
NanosOfCallbacks(k) == k * 23219954 + (k * 286) \div 441

\* C16: GetDuration is the duration of the samples of the callbacks delivered
\* while Recording since the last StartRecording: a StartRecording that passes
\* the check sets it to zero, a callback delivered while Recording adds
\* exactly its framesPerBuffer samples, and no step taken while the recorder is
\* Idle changes it, so every call returns the same value until the next start.
C16_DurationCountsRecordedSamples ==
    [][LET idle == ~recording["audio"]
           idleAfter == ~recording'["audio"]
           before == GetDuration(buffer)
           after == GetDuration(buffer')
       IN /\ (idle /\ idleAfter) => after = before
          /\ (idle /\ ~idleAfter) => after = 0
          /\ ~idle =>
                \/ after = before
                \/ /\ Len(buffer') = Len(buffer) + 1
                   /\ after = NanosOfCallbacks(Len(buffer) + 1)]_vars

\* two callbacks of 1024 samples were recorded: 2048 / 44100 s = 46439909 ns;
\* the stream was left started by the failed stop and keeps calling back
C16_Witness ==
    /\ Returned("audio", "Stop", ErrStopStream)
    /\ ~recording["audio"]
    /\ stream = "active"
    /\ Len(buffer) = 2
    /\ GetDuration(buffer) = 46439909

\* whenever a captureLoop is between captures, the retained frame is the
\* newest frame it has captured
C17_RetainsNewestCapture ==
    \A i \in LoopIds :
       (captureLoops[i].at = "select" /\ captureLoops[i].n > 0) =>
          latestImage = Frame(period["screen"], captureLoops[i].n)

\* the retained frame is only ever replaced by a newer one or dropped, and
\* a successful SaveToFile writes the retained frame, a frame of the period
C17_SaveStep ==
    /\ latestImage' # latestImage =>
          \/ latestImage' = NoImage
          \/ /\ PeriodOf(latestImage') = period["screen"]
             /\ latestImage' > latestImage
    /\ (Saves("screen") /\ ret'["caller"] = Nil) =>
          /\ files'[arg["caller"]] = PngFile(latestImage)
          /\ PeriodOf(latestImage) = period["screen"]

\* C17: the screen recorder retains one frame: after every successful capture
\* it is that newest capture, it is never replaced by an older one, and
\* SaveToFile writes the retained frame, the most recent capture of the
\* current period.
C17_OnlyNewestFrameRetained ==
    []C17_RetainsNewestCapture /\ [][C17_SaveStep]_vars

\* the second frame of the second period replaced the first and was saved
C17_Witness ==
    /\ Returned("screen", "Save", Nil)
    /\ period["screen"] = 2
    /\ latestImage = Frame(2, 2)
    /\ \E f \in CallerPaths("screen") : files[f] = PngFile(Frame(2, 2))

\* the step is a capture of loop i that failed
FailedCapture(i) ==
    /\ captureLoops[i].at \in {"first", "select"}
    /\ captureLoops'[i] # captureLoops[i]
    /\ captureLoops'[i].err

\* C18: a failed capture changes nothing in the screen recorder: the state
\* stays as it was, the captureLoop goes on to its select, and the retained
\* frame is kept; while the recorder is Recording a retained frame is never
\* dropped, and a SaveToFile finds it and, when it succeeds, writes it.
C18_FailedCaptureKeepsFrame ==
    [][/\ \A i \in LoopIds :
            FailedCapture(i) =>
               /\ captureLoops'[i].at = "select"
               /\ UNCHANGED <<recording, stopChan, wg, period, latestImage>>
       /\ (recording["screen"] /\ recording'["screen"] /\ latestImage # NoImage)
             => latestImage' # NoImage
       /\ (Saves("screen") /\ latestImage # NoImage) =>
             /\ ret'["caller"] # ErrNoScreenshot
             /\ ret'["caller"] = Nil => files'[arg["caller"]] = PngFile(latestImage)]_vars

\* the capture after the first frame failed, and the SaveToFile made while
\* Recording wrote that first frame
C18_Witness ==
    /\ Returned("screen", "Save", Nil)
    /\ recording["screen"]
    /\ latestImage = Frame(1, 1)
    /\ \E i \in LoopIds :
         /\ captureLoops[i].at = "select"
         /\ captureLoops[i].n = 1
         /\ captureLoops[i].err
    /\ \E f \in CallerPaths("screen") : files[f] = PngFile(Frame(1, 1))

\* the toggle handler leaves position p of startRecording / stopRecording
Leaves(p) == tpc = p /\ tpc' # p

\* while the session is Stopped and no handler is past the audio start, the
\* screen recorder is Idle with no captureLoop
C19_StoppedScreenIdle ==
    (~isRecording /\ tpc \in {"wait", "startAudio"}) =>
       /\ ~recording["screen"]
       /\ LiveLoops = {}
       /\ pc["toggle"] \notin {"sStart", "sDisplays", "sRevert", "sGo"}

\* a failed audio start ends the handler with the session Stopped and the
\* screen recorder not called; the screen recorder is started, and the session
\* made Active, only after an audio start that returned nil
C19_StartStep ==
    /\ (Leaves("startAudio") /\ ret["toggle"] # Nil) =>
          /\ tpc' = "wait"
          /\ ~isRecording'
          /\ pc'["toggle"] = "idle"
          /\ UNCHANGED <<recording, stopChan, wg, period, screenVars>>
    /\ tpc' = "startScreen" =>
          \/ tpc = "startScreen"
          \/ tpc = "startAudio" /\ op["toggle"] = "aStart" /\ ret["toggle"] = Nil
    /\ (isRecording' /\ ~isRecording) => tpc = "startScreen"

\* C19: when the toggle finds the session Stopped and the audio recorder's
\* start fails, the session stays Stopped and the screen recorder is not
\* started and stays Idle; the session becomes Active only after an audio
\* start that succeeded.
C19_AudioStartFailureKeepsStopped ==
    []C19_StoppedScreenIdle /\ [][C19_StartStep]_vars

\* the audio start of the first toggle failed in the device: the handler is
\* back at its wait, the session is Stopped, the screen recorder was not
\* touched
C19_Witness ==
    /\ tpc = "wait"
    /\ ~isRecording
    /\ period["audio"] = 1
    /\ recording["audio"]
    /\ audioLoops = 0
    /\ period["screen"] = 0
    /\ ~recording["screen"]

\* the session is Active with the screen recorder Idle: its start failed
AudioOnly ==
    /\ isRecording
    /\ tpc \in {"wait", "stopAudio"}
    /\ ~recording["screen"]

\* in an audio-only session no frame is retained and no captureLoop runs,
\* and while the session is Active and no toggle is handled the audio
\* recorder is Recording
C20_AudioOnlyHoldsNoFrame ==
    /\ AudioOnly => (latestImage = NoImage /\ LiveLoops = {})
    /\ (isRecording /\ tpc = "wait") => recording["audio"]

\* a failed screen start makes the session Active all the same; through the
\* stop that follows no frame appears, no screenshot file is written, and the
\* upload is handed an empty screenshot path
C20_StopStep ==
    /\ (Leaves("startScreen") /\ ret["toggle"] # Nil) =>
          /\ isRecording'
          /\ recording'["audio"]
          /\ ~recording'["screen"]
    /\ (tpc \in {"wait", "stopAudio", "stopScreen", "saveAudio"}
          /\ latestImage = NoImage /\ LiveLoops = {}) =>
          /\ tpc' # "startAudio" => (latestImage' = NoImage /\ LiveLoops' = {})
          /\ \A t \in 0..MaxTime :
                files'[ScreenshotPath(t)] = files[ScreenshotPath(t)]
    /\ (Leaves("saveAudio") /\ latestImage = NoImage) =>
          /\ tpc' = "wait"
          /\ pc'["toggle"] = "idle"
          /\ uploads' = uploads \cup {[audio |-> audioFile, screenshot |-> NoPath]}

\* C20: when the audio start succeeds and the screen start fails, the session
\* becomes Active with the audio recorder Recording and the screen recorder
\* Idle; at the stop that follows no screenshot file is saved and the upload
\* gets no screenshot path, also when an earlier session had saved a frame.
C20_ScreenStartFailureAudioOnly ==
    []C20_AudioOnlyHoldsNoFrame /\ [][C20_StopStep]_vars

\* the first session saved a screenshot; the second, audio-only, was stopped
\* and its upload has no screenshot path
C20_Witness ==
    /\ tpc = "wait"
    /\ ~isRecording
    /\ period["screen"] = 2
    /\ files[ScreenshotPath(0)] = PngFile(Frame(1, 1))
    /\ files[ScreenshotPath(1)] = NoFile
    /\ files[AudioPath(1)] # NoFile
    /\ [audio |-> AudioPath(1), screenshot |-> NoPath] \in uploads

\* C21: a stop handler (a toggle made while the session is Active) attempts
\* every step whatever the steps before it returned: when the audio stop ends,
\* the screen stop is called; when the screen stop ends, the audio save is
\* called; and the handler ends with the session Stopped.
C21_StopAttemptsEveryStep ==
    [][/\ Leaves("stopAudio") => (tpc' = "stopScreen" /\ pc'["toggle"] = "sStop")
       /\ Leaves("stopScreen") => (tpc' = "saveAudio" /\ pc'["toggle"] = "aSave")
       /\ (tpc \in {"saveAudio", "saveScreenshot"} /\ tpc' # tpc /\ tpc' # "saveScreenshot")
             => (tpc' = "wait" /\ ~isRecording')]_vars

\* C22: every toggle completes: whenever the toggle goroutine is inside
\* startRecording or stopRecording, it eventually is back at the receive of
\* the next click.
C22_EveryToggleCompletes == (tpc # "wait") ~> (tpc = "wait")

\* the toggle goroutine is at the receive of the next click, and the bound on
\* the recording periods explored leaves a start to handle
AwaitsClick ==
    /\ tpc = "wait"
    /\ pc["toggle"] = "idle"
    /\ isRecording \/ recording["audio"] \/ period["audio"] < MaxPeriods

\* a click can be handled whatever uploads are in flight
C23_ClickNeverWaits == AwaitsClick => ENABLED Click

\* the stop handler returns in the step that starts the upload goroutine:
\* the session is Stopped and the upload of this stop is in flight
C23_HandOffStep ==
    (tpc \in {"saveAudio", "saveScreenshot"} /\ tpc' = "wait") =>
       /\ ~isRecording'
       /\ pc'["toggle"] = "idle"
       /\ \E u \in uploads' : u.audio = audioFile

\* C23: the upload is handed off without waiting for it: the stop handler
\* returns, with the session Stopped, in the step that starts the upload, and
\* the next click is handled whether or not an upload is still in flight.
C23_UploadIsAsynchronous ==
    []C23_ClickNeverWaits /\ [][C23_HandOffStep]_vars

\* the session is Active again while the upload of the session before is
\* still in flight
C23_Witness ==
    /\ isRecording
    /\ tpc = "wait"
    /\ period["audio"] = 2
    /\ [audio |-> AudioPath(0), screenshot |-> ScreenshotPath(0)] \in uploads

\* C24: whenever the audio recorder is Idle and the caller is in none of its
\* methods, no input stream is open or started and the audio library is not
\* initialized.
C24_DeviceHeldOnlyWhileRecording ==
    (~recording["audio"] /\ pc["caller"] = "idle") =>
       /\ stream \notin {"open", "active"}
       /\ leaked = [open |-> 0, active |-> 0]
       /\ paInit = 0

\* C25: the audio start of a toggle made while the session is Stopped fails
\* only when the device fails in that very call: when the device is available
\* the start returns nil, also after an earlier toggle whose audio start
\* failed with a device error.
C25_DeviceErrorIsRecoverable ==
    (tpc = "startAudio" /\ pc["toggle"] = "idle") =>
       ret["toggle"] \in DeviceErrors \cup {Nil}

\* the toggle goroutine calls the recorder method entered at position m
TCalls(m) == pc["toggle"] # m /\ pc'["toggle"] = m

\* the toggle goroutine's last recorder call was m, made at position p of the
\* handler, and it has returned
TReturned(p, m) == tpc = p /\ pc["toggle"] = "idle" /\ op["toggle"] = m

\* C26: the orchestrator calls the screen start only when the audio start has
\* returned, the screen stop only when the audio stop has returned, the audio
\* SaveToFile only when the screen stop (called after the audio stop) has
\* returned, the screen SaveToFile only when the audio save has returned, and
\* it starts the upload only when the last save it attempts has returned.
C26_OrchestratorStepOrder ==
    [][/\ TCalls("sStart") => (TReturned("startAudio", "aStart") /\ ret["toggle"] = Nil)
       /\ TCalls("sStop") => TReturned("stopAudio", "aStop")
       /\ TCalls("aSave") => TReturned("stopScreen", "sStop")
       /\ TCalls("sSave") => TReturned("saveAudio", "aSave")
       /\ (uploads' \ uploads) # {} =>
             \/ TReturned("saveScreenshot", "sSave")
             \/ TReturned("saveAudio", "aSave") /\ latestImage = NoImage]_vars

\* both stops and both saves of a session have returned nil, and the upload is
\* about to be started
C26_Witness ==
    /\ TReturned("saveScreenshot", "sSave")
    /\ ret["toggle"] = Nil
    /\ ~recording["audio"]
    /\ ~recording["screen"]
    /\ files[audioFile].kind = "wav"
    /\ files[screenshotFile].kind = "png"
    /\ uploads = {}

\* the timestamp in a file name
TimestampOf(path) == path[2]

\* after both stops the audio save is called under the name made from the
\* clock reading; after it, the screenshot save is called exactly when the
\* screen recorder holds a frame, under the name made from the same reading;
\* and the session becomes Stopped only by a handler that attempted the save
C27_SaveStep ==
    /\ Leaves("stopScreen") =>
          /\ TCalls("aSave")
          /\ arg'["toggle"] = AudioPath(timestamp')
          /\ audioFile' = arg'["toggle"]
    /\ Leaves("saveAudio") =>
          /\ TCalls("sSave") <=> latestImage # NoImage
          /\ TCalls("sSave") =>
                /\ arg'["toggle"] = ScreenshotPath(timestamp)
                /\ screenshotFile' = arg'["toggle"]
                /\ TimestampOf(arg'["toggle"]) = TimestampOf(audioFile)
                /\ UNCHANGED <<timestamp, audioFile>>
    /\ TCalls("sSave") => tpc = "saveAudio"
    /\ (isRecording /\ ~isRecording') =>
          /\ audioFile = AudioPath(timestamp)
          /\ \/ TReturned("saveScreenshot", "sSave")
             \/ TReturned("saveAudio", "aSave")

\* C27: at every transition from Active to Stopped the audio save is attempted
\* under a name carrying the timestamp read after both stops; the screenshot
\* save is attempted if and only if HasScreenshot() is true at that point,
\* and then under a name carrying the same timestamp.
C27_SavesShareOneTimestamp == [][C27_SaveStep]_vars

\* the second stop of a run: the audio of the first was saved at time 0, the
\* audio of this one at time 1, and its screenshot save is in progress
C27_Witness ==
    /\ tpc = "saveScreenshot"
    /\ pc["toggle"] = "sSave"
    /\ arg["toggle"] = ScreenshotPath(1)
    /\ audioFile = AudioPath(1)
    /\ files[AudioPath(0)].kind = "wav"
    /\ files[AudioPath(1)].kind = "wav"
    /\ latestImage # NoImage

\* C28: when a stop handler starts the upload, the audio path it passes names
\* the file that this handler's audio SaveToFile wrote in full, and the
\* screenshot path, when not empty, the file that its screen SaveToFile wrote
\* in full: the last save attempted returned nil and the audio file holds the
\* buffer.
C28_UploadGetsSavedFiles ==
    [][(tpc \in {"saveAudio", "saveScreenshot"} /\ tpc' = "wait") =>
          /\ ret["toggle"] = Nil
          /\ Len(buffer) > 0
          /\ files[audioFile] = WavFile(buffer)
          /\ screenshotFile # NoPath => files[screenshotFile] = PngFile(latestImage)]_vars

\* the observer's IsRecording on recorder r returns v in this step
Observes(r, v) ==
    /\ pc["toggle"] = IsRecordingEntry(r)
    /\ pc'["toggle"] = "idle"
    /\ ret'["toggle"] = v

\* the caller's StartRecording on recorder r is past the point that decides
\* that it returns an error, or has returned one and nothing was called since
StartFails(r) ==
    \/ r = "screen" /\ pc["caller"] = "sRevert"
    \/ /\ pc["caller"] = "idle"
       /\ op["caller"] = Entry(r, "Start")
       /\ ret["caller"] \in DeviceErrors \cup {ErrNoDisplays}

\* C29: IsRecording never returns true on account of a StartRecording that
\* returns an error: no IsRecording returns true while the recorder's last
\* StartRecording is failing or has failed and no other call has been made.
C29_IsRecordingLinearizable ==
    [][\A r \in Recorders : Observes(r, "true") => ~StartFails(r)]_vars

\* C30 as stated: the screen recorder becomes Idle only after its captureLoop
\* has exited: IsRecording() is never false while a captureLoop is running.
C30_IdleOnlyAfterLoopExit ==
    ~recording["screen"] => LiveLoops = {}

\* a captureLoop runs on an Idle screen recorder only while StopRecording is
\* between its flip and the end of its wait
C30_LoopOutlivesFlipOnlyInStop ==
    (~recording["screen"] /\ LiveLoops # {}) => pc["caller"] \in {"sClose", "sWait"}

\* StopRecording flips the state in its first step, with the stop channel
\* still open; it closes the channel after the flip, passes its wait only
\* when no captureLoop is left, and replaces the channel after the wait
C30_StopStep ==
    /\ (Enters("screen", "Stop") /\ recording["screen"]) =>
          /\ ~recording'["screen"]
          /\ stopChan'["screen"] = "open"
          /\ pc'["caller"] = "sClose"
          /\ LiveLoops' = LiveLoops
    /\ (recording["screen"] /\ ~recording'["screen"]) =>
          (Enters("screen", "Stop") \/ pc["caller"] = "sRevert")
    /\ (stopChan["screen"] = "open" /\ stopChan'["screen"] = "closed") =>
          (pc["caller"] = "sClose" /\ ~recording["screen"] /\ pc'["caller"] = "sWait")
    /\ (pc["caller"] = "sWait" /\ pc'["caller"] # "sWait") =>
          (LiveLoops = {} /\ pc'["caller"] = "sReset" /\ stopChan'["screen"] = "closed")
    /\ (stopChan["screen"] = "closed" /\ stopChan'["screen"] = "open") =>
          (pc["caller"] = "sReset" /\ LiveLoops = {} /\ pc'["caller"] = "idle"
             /\ ret'["caller"] = Nil)

\* C30 as the code has it: screen StopRecording performs its steps in the
\* order flip, signal, join, reset; IsRecording() is false while the
\* captureLoop is still running only between the flip and the end of the wait
\* of a StopRecording, and when StopRecording returns no captureLoop is left.
C30_FlipSignalJoin ==
    []C30_LoopOutlivesFlipOnlyInStop /\ [][C30_StopStep]_vars

\* StopRecording has flipped the state and closed the channel and waits for a
\* captureLoop that is storing a frame
C30_Witness ==
    /\ pc["caller"] = "sWait"
    /\ ~recording["screen"]
    /\ stopChan["screen"] = "closed"
    /\ \E i \in LoopIds : captureLoops[i].at = "store"

\* C31: each recorder has at most one live background activity in every
\* reachable state, also when a StartRecording overlaps a StopRecording.
C31_AtMostOneBackgroundActivity ==
    \A r \in Recorders : Loops(r) <= 1

\* captureLoop i returns in this step
LoopExits(i) ==
    /\ captureLoops[i] # NoLoop
    /\ captureLoops'[i] = NoLoop
    /\ ~panicked'

\* a captureLoop returns only from its select, after at least one capture
\* attempt has completed; if one of its captures succeeded, the recorder holds
\* a frame of this period
C32_ExitStep ==
    \A i \in LoopIds :
       LoopExits(i) =>
          /\ captureLoops[i].at = "select"
          /\ captureLoops[i].n > 0 \/ captureLoops[i].err
          /\ captureLoops[i].n > 0 =>
                /\ latestImage' # NoImage
                /\ PeriodOf(latestImage') = period["screen"]

\* StopRecording returns nil only when the captureLoop has returned
C32_StopReturnsAfterLoop ==
    (pc["caller"] = "sReset" \/ Returned("screen", "Stop", Nil)) => LiveLoops = {}

\* C32: between a StartRecording that succeeded and the return of its
\* StopRecording the captureLoop completes at least one capture attempt,
\* however soon the stop follows; a period in which a capture succeeded ends
\* with HasScreenshot() true.
C32_EveryPeriodAttemptsACapture ==
    []C32_StopReturnsAfterLoop /\ [][C32_ExitStep]_vars

\* StopRecording closed the channel before the captureLoop had begun its first
\* capture; the loop has made the capture all the same and is about to store
\* the frame
C32_Witness ==
    /\ pc["caller"] = "sWait"
    /\ stopChan["screen"] = "closed"
    /\ latestImage = NoImage
    /\ \E i \in LoopIds :
         /\ captureLoops[i].at = "store"
         /\ captureLoops[i].img = Frame(1, 1)

\* captureLoop i begins a capture in this step (the first one, or one for a
\* tick taken in its select)
BeginsCapture(i) ==
    /\ captureLoops[i].at \in {"first", "select"}
    /\ captureLoops'[i] # captureLoops[i]
    /\ captureLoops'[i] # NoLoop

\* C33: once StopRecording has closed the stop channel, the captureLoop
\* begins no capture: every capture is begun while the channel is open.
C33_NoCaptureAfterStopSignal ==
    [][\A i \in LoopIds : BeginsCapture(i) => stopChan["screen"] = "open"]_vars

\* C34: a StopRecording called on a Recording recorder eventually returns.
C34_StopEventuallyReturns ==
    \A r \in Recorders :
       (pc["caller"] = Entry(r, "Stop") /\ recording[r]) ~> (pc["caller"] = "idle")


\* ---- C35
\* a WAV file that SaveToFile has finished writing
WrittenInFull(f) ==
    /\ files[f] # NoFile
    /\ files[f].kind = "wav"
    /\ \A c \in Threads : ~(pc[c] = "aSaveData" /\ arg[c] = f)

\* a step taken while some thread is inside a SaveToFile of recorder r
C35_SaveExcludesProducer ==
    /\ HeldBy("audio") # {} => buffer' = buffer
    /\ HeldBy("screen") # {} => latestImage' = latestImage

\* C35: while SaveToFile of a recorder holds r.mu the background producer of
\* that recorder writes nothing (no append to the audio buffer, no new latest
\* frame), at most one thread is inside SaveToFile, and every WAV file that
\* an audio SaveToFile has finished writing carries in its header the number
\* of payload bytes that follow it (2 bytes per sample), also when callbacks
\* keep arriving around the save.
C35_SaveWritesConsistentSnapshot ==
    /\ [](\A r \in Recorders : Cardinality(HeldBy(r)) <= 1)
    /\ [](\A f \in Paths :
            WrittenInFull(f) => files[f].dataSize = 2 * SampleCount(files[f].data))
    /\ [][C35_SaveExcludesProducer]_vars

\* an audio SaveToFile returned nil while the stream was delivering callbacks:
\* a callback was appended before it and another one after it
C35_Witness ==
    /\ pc["caller"] = "idle" /\ op["caller"] = "aSaveLock" /\ ret["caller"] = Nil
    /\ recording["audio"] /\ stream = "active"
    /\ \E f \in Paths :
          /\ WrittenInFull(f)
          /\ Len(files[f].data) >= 1
          /\ Len(buffer) > Len(files[f].data)


\* ---- C36
\* C36: whenever the toggle goroutine waits for a click, a Stopped session has
\* both recorders Idle and an Active session has the audio recorder
\* Recording, whatever start, stop or save calls failed before.
C36_SessionMatchesRecorders ==
    (tpc = "wait" /\ pc["toggle"] = "idle") =>
        /\ ~isRecording => (~recording["audio"] /\ ~recording["screen"])
        /\ isRecording => recording["audio"]


\* ---- C37
\* C37: under any interleaving of StartRecording and StopRecording on the
\* screen recorder the retained frame, when there is one, was captured in the
\* period opened by the latest StartRecording that passed its check: no frame
\* captured in an earlier period is stored after that start cleared the
\* latest frame.
C37_RetainedFrameIsOfThisPeriod ==
    latestImage # NoImage => PeriodOf(latestImage) = period["screen"]


\* ---- C39
\* the paths that the uploads in flight are going to read
ReadByUploads == {u.audio : u \in uploads} \cup {u.screenshot : u \in uploads}

\* C39: no save overwrites a file that an earlier stop sequence wrote and that
\* an upload still in flight is going to read: a stop sequence that follows
\* another one names its files apart from those handed to an upload that has
\* not ended.
C39_SaveSparesFilesOfUploads ==
    [][\A p \in Paths :
          (files[p] # NoFile /\ files'[p] # files[p]) => p \notin ReadByUploads]_vars


\* ---- C38
\* the toggle goroutine, or the exit handler, is inside stopRecording
ToggleStops == tpc \in ExitSteps
ExitStops == onExit.at \in ExitSteps

\* a step in which one of the two handlers starts its upload goroutine
HandsOff ==
    \/ tpc \in {"saveAudio", "saveScreenshot"} /\ tpc' = "wait"
    \/ onExit.at \in {"saveAudio", "saveScreenshot"} /\ onExit'.at = "done"

\* C38: an Active period is ended by one stop sequence: the toggle goroutine
\* and the exit handler are never inside stopRecording together, and every
\* hand-off of an upload is made while the session is still Active, so that
\* no period is saved and uploaded twice.
C38_OneStopSequencePerPeriod ==
    /\ [](~(ToggleStops /\ ExitStops))
    /\ [][HandsOff => isRecording]_vars

====
